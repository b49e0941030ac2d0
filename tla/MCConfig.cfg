\* Every file of up to three lines, or of five about channels, after a minimal head, from the lines of MCConfig.
CONSTANT Files <- MCFiles
SPECIFICATION Spec
CHECK_DEADLOCK FALSE
INVARIANTS ParsedAsWritten DispatchMatches BothKeysRefused OpensWrittenPorts
           ChannelsAsWritten

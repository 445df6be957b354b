SPECIFICATION FairSpec
CONSTANT Images <- AllImages
INVARIANTS DecoderTypeOK QueueIsMemory CursorWithinQueue FieldsAreTheBytes LengthIsArchitectural OverrunNeverExecuted
PROPERTY DecodingEnds

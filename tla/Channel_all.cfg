\* Either UI, one channel, two frames and two acks under way.
SPECIFICATION FairSpec
CONSTANTS
    MaxFrames = 2
    MaxEvents = 2
INVARIANTS ChannelInv CancelIsHonoured PromptTellsTruth
PROPERTIES DialogAnswered

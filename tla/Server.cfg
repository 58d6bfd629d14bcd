CONSTANTS
    Devices = {d1, d2}
    NoDevice = NoDevice
    Variants <- ArmAndX86
    ArmVariants <- Arm
    DiscordChannels <- Channels2
    TelegramTargets <- Target1
    MaxEnds = 1
SPECIFICATION FairSpec
INVARIANTS
    MadeOnce
    FailureIsContained
    StuckHasACause
PROPERTY CommandsEnd

SPECIFICATION KeySpec
CONSTANTS
  TopicRoot = "domo"
  Names = {"domo", "lake", "dev"}
  Mixed = {"a.b"}
  KeySlugs = {"lake", "dev"}
  KeyDevices = {"dev", "lake"}
  MaxGrowth = 2
INVARIANTS NoCrossDelivery PatternConfined TranslationFaithful
CHECK_DEADLOCK FALSE

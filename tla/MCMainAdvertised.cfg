\* The same instance: a processor that the usage lists and run does not know.
SPECIFICATION FairSpec
CONSTANTS
    Given = {"filename", "verbose", "run"}
    CommandLines <- MCCommandLines
    ConfigFiles <- MCConfigFiles
INVARIANTS
    AdvertisedIsKnown
CHECK_DEADLOCK FALSE

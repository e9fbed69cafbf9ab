SPECIFICATION FairSpec
CONSTANTS
    Plugins <- MCPlugins
    Pipeline <- MCPipeline
    Admins = {a1}
    Readers = {r1}
    ChannelCap = 1
    MaxEdits = 2
    MaxReloads = 1
INVARIANTS TypeOK NoEditLost AnsweredIsLive
PROPERTIES WatcherKeepsUp NoRollback WatcherRests ReloadsAreCaused EveryEditGoesLive WriterGetsLock

SPECIFICATION FairSpec
CONSTANTS
    Plugins <- MCPlugins
    Pipeline <- MCPipeline
    Admins = {a1}
    Readers = {}
    ChannelCap = 1
    MaxEdits = 1
    MaxReloads = 1
PROPERTY EditsStayLive
CHECK_DEADLOCK FALSE

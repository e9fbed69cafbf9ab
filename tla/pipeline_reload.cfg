SPECIFICATION FairSpec
CONSTANTS
    Conns = {c1, c2}
    Plugins <- MCPlugins
    Pipeline <- MCPipeline
    Versions <- AllVersions
    Upstreams = {"default"}
    Names = {}
    Statuses = {"ok"}
    Values = {}
    Bodies = {"text"}
    MaxRequests = 2
    Nil = Nil
INVARIANTS NoPluginBypassed RequestsBalance
PROPERTIES HooksFinish RejectStopsPipeline ImplementsGateway

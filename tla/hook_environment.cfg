SPECIFICATION Spec
CONSTANTS
    Conns = {c1}
    Plugins <- MCPlugins
    Pipeline <- MCPipeline
    Versions <- GuardRemoved
    Upstreams = {"default"}
    Names = {}
    Statuses = {"ok"}
    Values = {}
    Bodies = {"text"}
    MaxRequests = 2
    Nil = Nil
INVARIANT FreshEveryRequest

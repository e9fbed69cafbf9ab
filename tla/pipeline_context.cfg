SPECIFICATION Spec
CONSTANTS
    Conns = {c1}
    Plugins <- MCPlugins
    Pipeline <- MCPipeline
    Versions <- OneVersion
    Upstreams = {"default"}
    Names = {"v2"}
    Statuses = {"ok", "bad"}
    Values = {"ok", "bad"}
    Bodies = {"empty", "text", "binary"}
    MaxRequests = 2
    Nil = Nil
INVARIANTS TypeOK FreshContext RequestsBalance

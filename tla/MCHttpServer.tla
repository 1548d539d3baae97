--------------------------- MODULE MCHttpServer ---------------------------
(* Small instances of HttpServer. *)
EXTENDS HttpServer

AnyRequest(method, name, number) ==
    [kind |-> "request", method |-> method, name |-> name, number |-> number]

\* One line for each way through readFirstLine: three parts or not, the
\* method, and what the version is split into.
EachFirstLine ==
    {[kind |-> "other"],
     AnyRequest("unknown", "HTTP", "1.0"),
     AnyRequest("unsupported", "HTTP", "1.0"),
     AnyRequest("supported", "HTTP", "1.0"),
     AnyRequest("supported", "other", "1.0"),
     AnyRequest("supported", "other", "other"),
     AnyRequest("supported", "other", "missing")}
============================================================================

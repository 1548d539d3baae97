---------------------------- MODULE HttpServer ----------------------------
(***************************************************************************)
(* httpServer: the accept loop, the pool of threads behind it, and the     *)
(* handler that reads one request from a connection, answers it and closes *)
(* the connection.  Accepting thread, pool threads and clients interleave. *)
(*                                                                         *)
(* Lines are abstracted to what the handler tells apart.  Everything that  *)
(* follows a successful readBody (FileGetter, CGIhandler, status 200 and   *)
(* 304) is absent because no request reaches it: see ReadBody.             *)
(***************************************************************************)
EXTENDS Integers, FiniteSets, Sequences

CONSTANTS
    Connections,  \* the connections clients open
    FirstLines,   \* the first lines clients send
    MinPoolSize,  \* threads the pool keeps (5 in the code)
    MaxPoolSize,  \* threads it grows to (50 in the code)
    Nobody        \* no connection

RequestLine ==
    [kind : {"request"}, method : {"supported", "unsupported", "unknown"},
     name : {"HTTP", "other"}, number : {"1.0", "other", "missing"}]
OtherLine == [kind : {"other"}]

ASSUME PoolAssumption ==
    /\ MinPoolSize \in Nat \ {0}
    /\ MaxPoolSize \in Nat /\ MinPoolSize <= MaxPoolSize
    /\ IsFiniteSet(Connections)
    /\ Nobody \notin Connections
ASSUME LinesAssumption ==
    FirstLines \subseteq RequestLine \cup OtherLine

Codes == {400, 408, 500, 501, 503, 505}

VARIABLES
    acceptor,       \* what the accepting thread does next; "exited" when its
                    \* System.exit has ended the process
    requestSocket,  \* the connection it accepted last
    handler,        \* handler[c]: where the handler of c is
    code,           \* code[c]: the code of its Response, 0 when not set
    answer,         \* answer[c]: the codes of the status lines written to c
    idle,           \* pool threads that wait for a task
    between,        \* pool threads between two tasks
    client          \* client[c]: whether the client of c sends, has fallen
                    \* silent, has closed its end or broken the connection

vars == <<acceptor, requestSocket, handler, code, answer, idle, between, client>>
poolVars == <<acceptor, requestSocket, idle, between>>

Init ==
    /\ acceptor = "accept"
    /\ requestSocket = Nobody
    /\ handler = [c \in Connections |-> "none"]
    /\ code = [c \in Connections |-> 0]
    /\ answer = [c \in Connections |-> << >>]
    /\ idle = 0
    /\ between = 0
    /\ client = [c \in Connections |-> "sends"]

Running == {"firstLine", "header", "body", "send", "cleanup"}
Busy == {c \in Connections : handler[c] \in Running}
PoolSize == Cardinality(Busy) + idle + between

\* The process has not been ended.
Alive == acceptor # "exited"

-----------------------------------------------------------------------------
(* The clients. *)

Reading == {"firstLine", "header"}

\* While its request is read, a client may stop sending, for ever.  What one
\* that sends has sent is chosen when it is read.
Client(c) ==
    /\ Alive
    /\ handler[c] \in Reading
    /\ client[c] = "sends"
    /\ \E end \in {"silent", "closed", "broken"} :
          client' = [client EXCEPT ![c] = end]
    /\ UNCHANGED <<poolVars, handler, code, answer>>

-----------------------------------------------------------------------------
(* The accepting thread. *)

Accept(c) ==
    /\ acceptor = "accept"
    /\ handler[c] = "none"
    /\ requestSocket' = c
    /\ handler' = [handler EXCEPT ![c] = "accepted"]
    /\ acceptor' = "execute"
    /\ UNCHANGED <<code, answer, idle, between, client>>

\* accept may fail (no descriptor is left, say): exit ends every thread.
AcceptFails ==
    /\ acceptor = "accept"
    /\ acceptor' = "exited"
    /\ UNCHANGED <<requestSocket, handler, code, answer, idle, between, client>>

\* execute: below the core size a new thread takes the task; otherwise the
\* task is offered to a thread that waits on the SynchronousQueue.
Execute ==
    /\ acceptor = "execute"
    /\ IF PoolSize < MinPoolSize \/ idle > 0
       THEN /\ idle' = IF PoolSize < MinPoolSize THEN idle ELSE idle - 1
            /\ handler' = [handler EXCEPT ![requestSocket] = "firstLine"]
            /\ acceptor' = "accept"
       ELSE acceptor' = "grow" /\ UNCHANGED <<handler, idle>>
    /\ UNCHANGED <<requestSocket, code, answer, between, client>>

\* Nobody took the offer: a new thread below the largest size, otherwise the
\* rejection handler, on this thread.
Grow ==
    /\ acceptor = "grow"
    /\ IF PoolSize < MaxPoolSize
       THEN /\ handler' = [handler EXCEPT ![requestSocket] = "firstLine"]
            /\ acceptor' = "accept"
       ELSE acceptor' = "reject" /\ UNCHANGED handler
    /\ UNCHANGED <<requestSocket, code, answer, idle, between, client>>

\* rejectedExecution writes a 503 to the field requestSocket and closes it.
RejectedExecution ==
    /\ acceptor = "reject"
    /\ answer' = [answer EXCEPT ![requestSocket] = Append(@, 503)]
    /\ handler' = [handler EXCEPT ![requestSocket] = "closed"]
    /\ acceptor' = "accept"
    /\ UNCHANGED <<requestSocket, code, idle, between, client>>

Acceptor == Execute \/ Grow \/ RejectedExecution

-----------------------------------------------------------------------------
(* The pool's threads between tasks. *)

\* A thread whose task has ended waits for the next one.
Poll ==
    /\ Alive
    /\ between > 0
    /\ between' = between - 1
    /\ idle' = idle + 1
    /\ UNCHANGED <<acceptor, requestSocket, handler, code, answer, client>>

\* An idle thread above the core size ends after keepAliveTimeSeconds.
KeepAliveEnds ==
    /\ Alive
    /\ idle > 0
    /\ PoolSize > MinPoolSize
    /\ idle' = idle - 1
    /\ UNCHANGED <<acceptor, requestSocket, handler, code, answer, between,
                   client>>

-----------------------------------------------------------------------------
(* RequestHandler.run. *)

\* The code readFirstLine leaves for a line; the code 400 of a bad version is
\* set without a return, so the test of the number follows it, and a version
\* without "/" makes that test throw.
FirstLineCode(line) ==
    IF line.kind # "request"             THEN 400
    ELSE IF line.method = "unknown"      THEN 400
    ELSE IF line.method = "unsupported"  THEN 501
    ELSE IF line.number = "missing"      THEN 500
    ELSE IF line.number = "other"        THEN 505
    ELSE IF line.name # "HTTP"           THEN 400
    ELSE 0

\* A code that is set is sent; otherwise the handler goes on to next.
SetCode(c, newCode, next) ==
    /\ code' = [code EXCEPT ![c] = newCode]
    /\ handler' = [handler EXCEPT ![c] = IF newCode = 0 THEN next ELSE "send"]

\* readLine returns a line, or null once the client has closed its end.
Arrives(c) == client[c] = "sends"
Ended(c)   == client[c] = "closed"

ReadFirstLine(c) ==
    /\ handler[c] = "firstLine"
    /\ \/ Ended(c) /\ SetCode(c, 400, "header")
       \/ Arrives(c) /\ \E line \in FirstLines : SetCode(c, FirstLineCode(line), "header")
    /\ UNCHANGED <<poolVars, answer, client>>

\* Header lines until a blank one; any other line is a bad request, and the
\* end of input is a null line, whose length() throws.  A header line leaves
\* the handler where it is: it shows in client[c] = "sends" only.
ReadHeader(c) ==
    /\ handler[c] = "header"
    /\ \/ Ended(c) /\ SetCode(c, 500, "header")
       \/ Arrives(c) /\ SetCode(c, 0, "body")
       \/ Arrives(c) /\ SetCode(c, 400, "header")
    /\ UNCHANGED <<poolVars, answer, client>>

\* Mutant: the last catch sends the response without setting its code.
ReadBodyNoCode(c) ==
    /\ handler[c] = "body"
    /\ handler' = [handler EXCEPT ![c] = "send"]
    /\ UNCHANGED <<poolVars, code, answer, client>>

\* readBody starts from request.getBody(), which nothing has set: the
\* StringBuilder of a null String throws, before anything is read.
ReadBody(c) ==
    /\ handler[c] = "body"
    /\ SetCode(c, 500, "answer")
    /\ UNCHANGED <<poolVars, answer, client>>

\* Mutant: the catch of the timeout cleans up without an answer.
SocketTimeoutUnanswered(c) ==
    /\ handler[c] \in Reading
    /\ client[c] \in {"sends", "silent"}
    /\ handler' = [handler EXCEPT ![c] = "cleanup"]
    /\ UNCHANGED <<poolVars, code, answer, client>>

\* Mutant: setSoTimeout is not called.
SocketTimeoutNever(c) ==
    /\ handler[c] \in {}
    /\ UNCHANGED vars

\* SO_TIMEOUT ends a read of the socket that finds nothing for five seconds.
\* It may befall a client that sends, and does not if that one sends a byte
\* now and then, however long its line takes; a silent one it must befall.
SocketTimeout(c) ==
    /\ handler[c] \in Reading
    /\ client[c] \in {"sends", "silent"}
    /\ SetCode(c, 408, "send")
    /\ UNCHANGED <<poolVars, answer, client>>

\* Any other IOException ends the task: nothing is sent or closed.
IOException(c) ==
    /\ handler[c] \in Reading
    /\ client[c] = "broken"
    /\ handler' = [handler EXCEPT ![c] = "left"]
    /\ between' = between + 1
    /\ UNCHANGED <<acceptor, requestSocket, idle, code, answer, client>>

\* sendResponse: the status line, for a code other than 200 and 304 nothing
\* more; a PrintWriter reports no error of a client that is gone.
SendResponse(c) ==
    /\ handler[c] = "send"
    /\ answer' = [answer EXCEPT ![c] = Append(@, code[c])]
    /\ handler' = [handler EXCEPT ![c] = "cleanup"]
    /\ UNCHANGED <<poolVars, code, client>>

\* cleanup sleeps and closes the connection; the task of the thread ends.
Cleanup(c) ==
    /\ handler[c] = "cleanup"
    /\ handler' = [handler EXCEPT ![c] = "closed"]
    /\ between' = between + 1
    /\ UNCHANGED <<acceptor, requestSocket, idle, code, answer, client>>

Run(c) ==
    /\ Alive
    /\ \/ ReadFirstLine(c)
       \/ ReadHeader(c)
       \/ ReadBody(c)
       \/ SocketTimeout(c)
       \/ IOException(c)
       \/ SendResponse(c)
       \/ Cleanup(c)

Next ==
    \/ \E c \in Connections : Accept(c)
    \/ AcceptFails
    \/ Acceptor
    \/ Poll
    \/ KeepAliveEnds
    \/ \E c \in Connections : Run(c)
    \/ \E c \in Connections : Client(c)

Spec == Init /\ [][Next]_vars

\* The handler of c waits for the rest of a line of a client that is sending.
WaitsForClient(c) == handler[c] \in Reading /\ client[c] = "sends"

\* The virtual machine runs every thread that can run.  Clients owe nothing: a
\* read of one that sends may last, the next line may always be a header.
FairSpec ==
    /\ Spec
    /\ WF_vars(Acceptor)
    /\ WF_vars(Poll)
    /\ \A c \in Connections : WF_vars(~WaitsForClient(c) /\ Run(c))

-----------------------------------------------------------------------------
(* Properties. *)

\* The types.  A status line carries one of the codes Response has a message
\* for: the handler never sends the code 0 of an unfinished Response.
TypeOK ==
    /\ acceptor \in {"accept", "execute", "grow", "reject", "exited"}
    /\ requestSocket \in Connections \cup {Nobody}
    /\ handler \in [Connections -> Running \cup {"none", "accepted", "closed", "left"}]
    /\ code \in [Connections -> Codes \cup {0}]
    /\ answer \in [Connections -> Seq(Codes)]
    /\ idle \in Nat /\ between \in Nat
    /\ client \in [Connections -> {"sends", "silent", "closed", "broken"}]

\* The accepting thread writes 503 through a field that the next accept
\* overwrites, and run sends from five places: a connection that was closed
\* got exactly one status line, every other one at most one.
OneStatusLine ==
    \A c \in Connections :
        /\ Len(answer[c]) <= 1
        /\ handler[c] = "closed" => Len(answer[c]) = 1
        /\ handler[c] = "left" => Len(answer[c]) = 0

\* A connection that was accepted is closed, or left after its client broke
\* it, unless the process ends or its client goes on sending for ever without
\* an end to its request: neither a client that falls silent, at any line, nor
\* a full pool keeps a connection open.
EveryConnectionEnds ==
    \A c \in Connections :
        handler[c] = "accepted" ~>
            (handler[c] \in {"closed", "left"} \/ ~Alive \/ []WaitsForClient(c))

\* What the comment at the call of readBody says: a request without a body
\* goes through readBody unchanged, so it is not answered 500 there.
BodyIsOptional ==
    [][\A c \in Connections : handler[c] = "body" => code'[c] # 500]_vars
=============================================================================

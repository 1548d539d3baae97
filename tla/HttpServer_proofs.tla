------------------------- MODULE HttpServer_proofs -------------------------
(***************************************************************************)
(* Every connection of HttpServer gets at most one status line, exactly    *)
(* one before it is closed, for any number of connections and any sizes of *)
(* the pool.  The invariant says who may write to a connection: before its *)
(* task is handed over only the accepting thread, afterwards its handler.  *)
(***************************************************************************)
EXTENDS HttpServer, TLAPS

\* The connection that the accepting thread has not handed over yet.
HandOver ==
    acceptor \in {"execute", "grow", "reject"} =>
        /\ requestSocket \in Connections
        /\ handler[requestSocket] = "accepted"

\* What has been written, by the place of the handler.
Written ==
    \A c \in Connections :
        IF handler[c] \in {"cleanup", "closed"}
        THEN Len(answer[c]) = 1
        ELSE answer[c] = << >>

\* A handler sends once a code is set.
CodeSet == \A c \in Connections : handler[c] = "send" => code[c] \in Codes

Inv == TypeOK /\ HandOver /\ Written /\ CodeSet

\* The code of a first line is none or one Response has a message for.
LEMMA FirstLineCodes ==
    ASSUME NEW line \in RequestLine \cup OtherLine
    PROVE  FirstLineCode(line) \in Codes \cup {0}
BY DEF RequestLine, OtherLine, FirstLineCode, Codes

\* Appending a status line to an empty answer.
LEMMA FirstAnswer ==
    ASSUME NEW n \in Codes
    PROVE  /\ Append(<< >>, n) \in Seq(Codes)
           /\ Len(Append(<< >>, n)) = 1
BY << >> \in Seq(Codes)

\* Init establishes the invariant.
LEMMA InitInv == Init => Inv
<1>1. << >> \in Seq(Codes)
    OBVIOUS
<1> QED
    BY <1>1 DEF Init, Inv, TypeOK, HandOver, Written, CodeSet, Running

\* What SetCode keeps, wherever a handler that reads or has read calls it.
LEMMA SetCodeInv ==
    ASSUME Inv, NEW c \in Connections, NEW n \in Codes \cup {0},
           NEW next \in {"header", "body"},
           handler[c] \in Reading \cup {"body"},
           SetCode(c, n, next),
           UNCHANGED <<poolVars, answer, client>>
    PROVE  Inv'
<1>1. /\ handler'[c] \in {"header", "body", "send"}
      /\ handler' \in [Connections -> Running \cup {"none", "accepted", "closed", "left"}]
      /\ code' \in [Connections -> Codes \cup {0}]
      /\ \A d \in Connections \ {c} : handler'[d] = handler[d] /\ code'[d] = code[d]
    BY DEF Inv, TypeOK, SetCode, Running
<1>2. TypeOK'
    BY <1>1 DEF Inv, TypeOK, poolVars
<1>3. HandOver'
    BY <1>1 DEF Inv, HandOver, poolVars, Reading
<1>4. Written'
    BY <1>1 DEF Inv, Written, Reading
<1>5. CodeSet'
    BY <1>1 DEF Inv, TypeOK, CodeSet, SetCode
<1> QED
    BY <1>2, <1>3, <1>4, <1>5 DEF Inv

\* A step of the handler of one connection.
LEMMA RunInv ==
    ASSUME Inv, NEW c \in Connections, Run(c)
    PROVE  Inv'
<1>1. CASE ReadFirstLine(c)
    <2>1. PICK n \in Codes \cup {0} : SetCode(c, n, "header")
        <3>1. CASE Ended(c) /\ SetCode(c, 400, "header")
            BY <3>1 DEF Codes
        <3>2. CASE Arrives(c) /\ \E line \in FirstLines : SetCode(c, FirstLineCode(line), "header")
            BY <3>2, FirstLineCodes, LinesAssumption
        <3> QED
            BY <1>1, <3>1, <3>2 DEF ReadFirstLine
    <2> QED
        BY <1>1, <2>1, SetCodeInv DEF ReadFirstLine, Reading
<1>2. CASE ReadHeader(c)
    <2>1. PICK n \in Codes \cup {0}, next \in {"header", "body"} : SetCode(c, n, next)
        BY <1>2 DEF ReadHeader, Codes
    <2> QED
        BY <1>2, <2>1, SetCodeInv DEF ReadHeader, Reading
<1>3. CASE ReadBody(c)
    <2>1. SetCode(c, 500, "header")
        BY <1>3 DEF ReadBody, SetCode
    <2> QED
        BY <1>3, <2>1, SetCodeInv DEF ReadBody, Codes
<1>4. CASE SocketTimeout(c)
    <2>1. SetCode(c, 408, "header")
        BY <1>4 DEF SocketTimeout, SetCode
    <2> QED
        BY <1>4, <2>1, SetCodeInv DEF SocketTimeout, Codes
<1>5. CASE IOException(c)
    BY <1>5 DEF IOException, Inv, TypeOK, HandOver, Written, CodeSet, Reading, Running
<1>6. CASE SendResponse(c)
    <2>1. /\ answer[c] = << >> /\ code[c] \in Codes
          /\ answer' = [answer EXCEPT ![c] = Append(<< >>, code[c])]
        BY <1>6 DEF SendResponse, Inv, Written, CodeSet
    <2>2. /\ answer' \in [Connections -> Seq(Codes)]
          /\ Len(answer'[c]) = 1
          /\ \A d \in Connections \ {c} : answer'[d] = answer[d]
        BY <2>1, FirstAnswer DEF Inv, TypeOK
    <2> QED
        BY <1>6, <2>2 DEF SendResponse, Inv, TypeOK, HandOver, Written, CodeSet, Running, poolVars
<1>7. CASE Cleanup(c)
    BY <1>7 DEF Cleanup, Inv, TypeOK, HandOver, Written, CodeSet, Running
<1> QED
    BY <1>1, <1>2, <1>3, <1>4, <1>5, <1>6, <1>7 DEF Run

\* A step of the accepting thread.
LEMMA AcceptorInv ==
    ASSUME Inv, Acceptor \/ AcceptFails \/ \E c \in Connections : Accept(c)
    PROVE  Inv'
<1>1. ASSUME NEW c \in Connections, Accept(c)
      PROVE  Inv'
    BY <1>1 DEF Accept, Inv, TypeOK, HandOver, Written, CodeSet
<1>2. CASE Execute
    <2>1. idle' \in Nat
        BY <1>2 DEF Execute, Inv, TypeOK
    <2>2. /\ requestSocket \in Connections
          /\ handler[requestSocket] = "accepted"
          /\ \/ /\ handler' = [handler EXCEPT ![requestSocket] = "firstLine"]
                /\ acceptor' = "accept"
             \/ UNCHANGED handler /\ acceptor' = "grow"
          /\ UNCHANGED <<requestSocket, code, answer, between, client>>
        BY <1>2 DEF Execute, Inv, HandOver
    <2> QED
        BY <2>1, <2>2 DEF Inv, TypeOK, HandOver, Written, CodeSet, Running
<1>3. CASE Grow
    BY <1>3 DEF Grow, Inv, TypeOK, HandOver, Written, CodeSet, Running
<1>4. CASE RejectedExecution
    <2> DEFINE r == requestSocket
    <2>1. r \in Connections /\ answer[r] = << >> /\ handler[r] = "accepted"
        BY <1>4 DEF RejectedExecution, Inv, HandOver, Written
    <2>2. answer' = [answer EXCEPT ![r] = Append(<< >>, 503)]
        BY <1>4, <2>1 DEF RejectedExecution
    <2>3. /\ answer' \in [Connections -> Seq(Codes)]
          /\ Len(answer'[r]) = 1
          /\ \A d \in Connections \ {r} : answer'[d] = answer[d]
        BY <2>1, <2>2, FirstAnswer, 503 \in Codes DEF Inv, TypeOK, Codes
    <2> QED
        BY <1>4, <2>1, <2>3 DEF RejectedExecution, Inv, TypeOK, HandOver, Written,
            CodeSet
<1>5. CASE AcceptFails
    BY <1>5 DEF AcceptFails, Inv, TypeOK, HandOver, Written, CodeSet
<1> QED
    BY <1>1, <1>2, <1>3, <1>4, <1>5 DEF Acceptor

\* Every step keeps the invariant.
LEMMA NextInv == Inv /\ [Next]_vars => Inv'
<1> SUFFICES ASSUME Inv, [Next]_vars PROVE Inv'
    OBVIOUS
<1>1. CASE Acceptor \/ AcceptFails \/ \E c \in Connections : Accept(c)
    BY <1>1, AcceptorInv
<1>2. ASSUME NEW c \in Connections, Run(c) PROVE Inv'
    BY <1>2, RunInv
<1>3. CASE Poll
    BY <1>3 DEF Poll, Inv, TypeOK, HandOver, Written, CodeSet
<1>4. CASE KeepAliveEnds
    BY <1>4 DEF KeepAliveEnds, Inv, TypeOK, HandOver, Written, CodeSet
<1>5. ASSUME NEW c \in Connections, Client(c) PROVE Inv'
    BY <1>5 DEF Client, Inv, TypeOK, HandOver, Written, CodeSet, Reading, poolVars
<1>6. CASE UNCHANGED vars
    BY <1>6 DEF vars, Inv, TypeOK, HandOver, Written, CodeSet
<1> QED
    BY <1>1, <1>2, <1>3, <1>4, <1>5, <1>6 DEF Next

\* The invariant holds in every reachable state of the server.
LEMMA Invariance == Spec => []Inv
<1> QED
    BY InitInv, NextInv, PTL DEF Spec

\* Every status line the server writes carries a code it has a message for,
\* and its variables keep their types.
THEOREM TypeCorrect == Spec => []TypeOK
<1>1. Inv => TypeOK
    BY DEF Inv
<1> QED
    BY <1>1, Invariance, PTL

\* run and the rejection handler write one status line to a connection, and
\* close none without it, however accepts, tasks and clients interleave.
THEOREM OneStatusLineHolds == Spec => []OneStatusLine
<1>1. Inv => OneStatusLine
    <2> SUFFICES ASSUME Written, NEW c \in Connections
                 PROVE  /\ Len(answer[c]) <= 1
                        /\ handler[c] = "closed" => Len(answer[c]) = 1
                        /\ handler[c] = "left" => Len(answer[c]) = 0
        BY DEF Inv, OneStatusLine
    <2>1. Len(<< >>) = 0
        OBVIOUS
    <2>2. CASE handler[c] \in {"cleanup", "closed"}
        <3>1. Len(answer[c]) = 1
            BY <2>2 DEF Written
        <3>2. handler[c] # "left"
            BY <2>2
        <3>3. Len(answer[c]) <= 1
            BY <3>1
        <3> QED
            BY <3>1, <3>2, <3>3
    <2>3. CASE handler[c] \notin {"cleanup", "closed"}
        BY <2>1, <2>3 DEF Written
    <2> QED
        BY <2>2, <2>3
<1> QED
    BY <1>1, Invariance, PTL
=============================================================================

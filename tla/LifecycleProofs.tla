-------------------------- MODULE LifecycleProofs --------------------------
(***************************************************************************)
(* Proofs about RequestLifecycle, for any number of requests and retries.  *)
(*                                                                         *)
(* The gauges and the records are kept beside the requests: Place says     *)
(* where each request and its connection can be together, and the gauges   *)
(* are shown to count what Place allows.                                   *)
(*                                                                         *)
(* The relay comes last, for any number of frames and any way they are cut *)
(* into chunks: what the upstream has begun of a stream is always two      *)
(* sequences of frames, those that were decoded, which the client has as   *)
(* far as they are known, and those whose halves are in the buffer or      *)
(* under way.                                                              *)
(***************************************************************************)
EXTENDS RequestLifecycle, SortedSeqsProofs, FiniteSetTheorems, TLAPS

Ways == {"none", "whole", "unread", "raised", "sse", "bytes"}
Flows == {"none", "open", "ended", "broken"}
Steps == {"idle", "loop", "sent", "drain", "asleep", "handling", "replied",
          "streaming", "buffering", "over"}

\* The inductive invariant.
Types ==
  /\ pc \in [Requests -> Steps] /\ flow \in [Requests -> Flows]
  /\ reply \in [Requests -> [status : Nat, body : Ways]]
  /\ attempt \in [Requests -> Nat] /\ sends \in [Requests -> Nat]
  /\ lateSends \in [Requests -> Nat] /\ noted \in [Requests -> Nat]
  /\ held \subseteq Requests /\ dropped \subseteq Requests
  /\ upstream \in Nat /\ active \in Nat
  /\ records \in Seq([req : Requests, status : Nat, retries : Nat])

\* What was asked goes with how it is handled.
Asked(r) ==
  /\ mode[r] \in {"sync", "stream", "invoke"}
  /\ kind[r] = "invoke" <=> mode[r] = "invoke"
  /\ kind[r] \in {"raw", "invoke"} /\ mode[r] = "stream" => kind[r] = "raw"
  /\ kind[r] \notin {"raw", "invoke"} => mode[r] = "stream"

\* Where a request is, and with it its answer and its connection.
Place(r) ==
  /\ pc[r] \in {"idle", "loop", "sent", "asleep", "handling"} => reply[r] = NoReply
  /\ pc[r] = "drain" => reply[r].body = "unread" /\ mode[r] = "stream"
  /\ pc[r] \in {"loop", "sent", "drain", "asleep"} => kind[r] \in {"raw", "invoke"}
  /\ pc[r] = "handling" => kind[r] \notin {"raw", "invoke"}
  /\ pc[r] = "replied" => reply[r].body \in {"whole", "raised", "sse", "bytes"}
  /\ pc[r] = "streaming" => reply[r].body = "sse"
  /\ pc[r] = "buffering" => reply[r].body = "bytes"
  /\ reply[r].body \in {"sse", "bytes"} => kind[r] \in {"raw", "native"} /\ mode[r] = "stream"
  /\ pc[r] \in {"streaming", "buffering"} => flow[r] # "none"
  /\ pc[r] \notin {"streaming", "buffering", "over"} => flow[r] = "none"
  /\ r \in begun => pc[r] \in {"streaming", "over"} /\ reply[r].body = "sse"

Connection(r) ==
  /\ pc[r] \in {"sent", "drain"} => r \in held
  /\ pc[r] = "replied" /\ reply[r].body \in {"sse", "bytes"} => r \in held
  /\ pc[r] \in {"streaming", "buffering"} /\ flow[r] = "open" => r \in held
  /\ r \in held => \/ pc[r] \in {"sent", "drain"}
                   \/ reply[r].body \in {"sse", "bytes"} /\ flow[r] \in {"none", "open"}
  /\ r \in held => r \notin dropped
  /\ r \in dropped => \/ /\ pc[r] \in {"replied", "over"}
                         /\ reply[r] = Raised /\ kind[r] = "raw" /\ mode[r] = "stream"
                      \/ pc[r] = "over" /\ reply[r].body = "sse" /\ r \notin begun

PlaceInv == Types /\ \A r \in Requests : Asked(r) /\ Place(r) /\ Connection(r)

-----------------------------------------------------------------------------
USE PassthroughAssumption DEF Looping

LEMMA PlaceInit == Init => PlaceInv
<1> SUFFICES ASSUME Init PROVE PlaceInv
  OBVIOUS
<1>1. Types
  BY DEF Init, Types, Steps, Flows, Ways, NoReply, Reply
<1>2. ASSUME NEW r \in Requests PROVE Asked(r) /\ Place(r) /\ Connection(r)
  <2>1. Asked(r)
    BY DEF Init, Asked
  <2>2. Place(r) /\ Connection(r)
    BY DEF Init, Place, Connection, NoReply, Reply
  <2> QED BY <2>1, <2>2
<1> QED BY <1>1, <1>2 DEF PlaceInv

\* What a handler returns or sleeps on has the right shape.
Answered ==
  /\ pc \in [Requests -> Steps] /\ noted \in [Requests -> Nat]
  /\ reply \in [Requests -> [status : Nat, body : Ways]]

LEMMA ReturnAnswers ==
  ASSUME Types, NEW r \in Requests, NEW status \in Nat, NEW body \in Ways,
         Return(r, Reply(status, body))
  PROVE  Answered'
<1>1. Reply(status, body) \in [status : Nat, body : Ways]
  BY DEF Reply
<1> QED BY <1>1 DEF Return, Answered, Types, Steps

LEMMA RetryAnswers ==
  ASSUME Types, NEW r \in Requests, NEW status \in Nat,
         \/ RetryOr(r, Reply(status, "whole"))
         \/ Return(r, Reply(status, "whole"))
  PROVE  Answered'
<1>1. CASE Return(r, Reply(status, "whole"))
  BY <1>1, ReturnAnswers DEF Ways
<1>2. CASE Backoff(r)
  BY <1>2 DEF Backoff, Answered, Types, Steps
<1> QED BY <1>1, <1>2 DEF RetryOr

LEMMA AttemptAnswers ==
  ASSUME Types, NEW r \in Requests, ConnectTimeout(r) \/ Broken(r) \/ AnswerSync(r)
  PROVE  Answered'
<1>1. CASE ConnectTimeout(r)
  BY <1>1, RetryAnswers DEF ConnectTimeout
<1>2. CASE Broken(r)
  BY <1>2, RetryAnswers DEF Broken
<1>3. CASE AnswerSync(r)
  <2>1. \A s \in Statuses : s \in Nat
    BY DEF Statuses
  <2> QED BY <1>3, <2>1, RetryAnswers DEF AnswerSync
<1> QED BY <1>1, <1>2, <1>3

\* A returned answer finds its place, and so does a loop that sleeps instead.
LEMMA ReturnPlaces ==
  ASSUME PlaceInv, NEW r \in Requests, NEW rep, Return(r, rep),
         rep.body \in {"whole", "raised", "sse", "bytes"},
         rep.body \in {"sse", "bytes"} => kind[r] \in {"raw", "native"} /\ mode[r] = "stream",
         pc[r] \in {"loop", "sent", "drain", "handling"},
         UNCHANGED <<kind, mode, flow, begun>>
  PROVE  Place(r)'
<1>1. Place(r) /\ Types
  BY DEF PlaceInv
<1>2. pc'[r] = "replied" /\ reply'[r] = rep
  BY <1>1 DEF Return, Types
<1>3. r \notin begun /\ flow[r] = "none"
  BY <1>1 DEF Place
<1> QED BY <1>2, <1>3 DEF Place

LEMMA RetryPlaces ==
  ASSUME PlaceInv, NEW r \in Requests, NEW status,
         \/ RetryOr(r, Reply(status, "whole"))
         \/ Return(r, Reply(status, "whole")),
         pc[r] = "sent", UNCHANGED <<kind, mode, flow, begun>>
  PROVE  Place(r)'
<1>1. CASE Return(r, Reply(status, "whole"))
  BY <1>1, ReturnPlaces DEF Reply
<1>2. CASE Backoff(r)
  <2>1. Place(r) /\ Types
    BY DEF PlaceInv
  <2>2. pc'[r] = "asleep" /\ reply' = reply
    BY <1>2, <2>1 DEF Backoff, Types
  <2> QED BY <2>1, <2>2 DEF Place, NoReply, Reply
<1> QED BY <1>1, <1>2 DEF RetryOr

\* One step of a loop: what it does to its own request is in the actions' terms.
LEMMA LoopKeeps ==
  ASSUME PlaceInv, NEW r \in Requests, Raw(r)
  PROVE  PlaceInv'
<1> USE DEF PlaceInv, Types, Raw, middleware, relay, choice, loop, conns,
            Enter, Leave, Drop, Less, Return, Backoff, RetryOr, Reply, Raised, NoReply,
            Steps, Ways, Statuses, Retryable
<1>0. r \in Requests /\ kind[r] \in {"raw", "invoke"}
  OBVIOUS
<1>1. CASE Expire(r)
  BY <1>1 DEF Expire, Asked, Place, Connection
<1>2. CASE Send(r)
  <2>1. Types'
    <3>1. /\ pc' \in [Requests -> Steps] /\ noted' \in [Requests -> Nat]
          /\ reply' \in [Requests -> [status : Nat, body : Ways]]
      BY <1>2 DEF Send, Types
    <3>2. held' \subseteq Requests /\ dropped' \subseteq Requests /\ upstream' \in Nat
      BY <1>2 DEF Send, Types
    <3>3. sends' \in [Requests -> Nat] /\ lateSends' \in [Requests -> Nat]
      <4>1. /\ sends' = [sends EXCEPT ![r] = @ + 1]
            /\ lateSends' = [lateSends EXCEPT ![r] = IF r \in late THEN @ + 1 ELSE @]
        BY <1>2 DEF Send
      <4> QED BY <4>1
    <3>4. UNCHANGED <<flow, attempt, active, records>>
      BY <1>2 DEF Send
    <3> QED BY <3>1, <3>2, <3>3, <3>4
  <2>2. ASSUME NEW q \in Requests PROVE Asked(q)' /\ Place(q)'
    BY <1>2 DEF Send, Types, Asked, Place
  <2>3. ASSUME NEW q \in Requests PROVE Connection(q)'
    BY <1>2 DEF Send, Types, Place, Connection
  <2> QED BY <2>1, <2>2, <2>3
<1>3. CASE Unavailable(r)
  <2>1. Types'
    <3>1. /\ pc' \in [Requests -> Steps] /\ noted' \in [Requests -> Nat]
          /\ reply' \in [Requests -> [status : Nat, body : Ways]]
      BY <1>3 DEF Unavailable, Types
    <3>2. held' \subseteq Requests /\ dropped' \subseteq Requests /\ upstream' \in Nat
      BY <1>3 DEF Unavailable, Types
    <3> QED BY <1>3, <3>1, <3>2 DEF Unavailable, Types
  <2>2. ASSUME NEW q \in Requests PROVE Asked(q)' /\ Place(q)'
    <3>1. /\ pc[r] = "loop" /\ pc' = [pc EXCEPT ![r] = "replied"] /\ UNCHANGED <<mode, kind>>
          /\ UNCHANGED <<flow, begun>>
          /\ reply' = [reply EXCEPT ![r] = [status |-> 502, body |-> "whole"]]
      BY <1>3 DEF Unavailable
    <3>2. CASE q = r
      BY <3>1, <3>2 DEF Asked, Place
    <3>3. CASE q # r
      BY <3>1, <3>3 DEF Asked, Place
    <3> QED BY <3>2, <3>3
  <2>3. ASSUME NEW q \in Requests PROVE Connection(q)'
    BY <1>3 DEF Unavailable, Types, Place, Connection
  <2> QED BY <2>1, <2>2, <2>3
<1>4. CASE Wake(r)
  <2>1. Types'
    BY <1>4 DEF Wake, Types
  <2>2. ASSUME NEW q \in Requests PROVE Asked(q)' /\ Place(q)'
    BY <1>4 DEF Wake, Types, Asked, Place
  <2>3. ASSUME NEW q \in Requests PROVE Connection(q)'
    BY <1>4 DEF Wake, Types, Place, Connection
  <2> QED BY <2>1, <2>2, <2>3
<1>5. CASE ConnectTimeout(r)
  <2>1. Types'
    <3>1. Answered'
      BY <1>5, AttemptAnswers
    <3>2. held' \subseteq Requests /\ dropped' \subseteq Requests /\ upstream' \in Nat
      BY <1>5 DEF ConnectTimeout, Types
    <3> QED BY <1>5, <3>1, <3>2 DEF ConnectTimeout, Answered, Types
  <2>2. ASSUME NEW q \in Requests PROVE Asked(q)' /\ Place(q)'
    <3>1. Asked(q)'
      BY <1>5 DEF ConnectTimeout, Asked
    <3>2. CASE q = r
      <4>1. pc[r] = "sent" /\ UNCHANGED <<kind, mode, flow, begun>>
        BY <1>5 DEF ConnectTimeout
      <4>2. RetryOr(r, Reply(504, "whole"))
        BY <1>5 DEF ConnectTimeout
      <4> HIDE DEF RetryOr, Reply
      <4>3. Place(r)'
        BY <4>1, <4>2, RetryPlaces
      <4> QED BY <3>1, <3>2, <4>3
    <3>3. CASE q # r
      <4>1. pc'[q] = pc[q] /\ reply'[q] = reply[q] /\ UNCHANGED <<kind, mode, flow, begun>>
        BY <1>5, <3>3 DEF ConnectTimeout, Types
      <4>2. Place(q)
        OBVIOUS
      <4> QED BY <3>1, <4>1, <4>2 DEF Place
    <3> QED BY <3>2, <3>3
  <2>3. ASSUME NEW q \in Requests PROVE Connection(q)'
    BY <1>5 DEF ConnectTimeout, Types, Place, Connection
  <2> QED BY <2>1, <2>2, <2>3
<1>6. CASE ReadTimeout(r)
  BY <1>6 DEF ReadTimeout, Asked, Place, Connection
<1>7. CASE Broken(r)
  <2>1. Types'
    <3>1. Answered'
      BY <1>7, AttemptAnswers
    <3>2. held' \subseteq Requests /\ dropped' \subseteq Requests /\ upstream' \in Nat
      BY <1>7 DEF Broken, Types
    <3> QED BY <1>7, <3>1, <3>2 DEF Broken, Answered, Types
  <2>2. ASSUME NEW q \in Requests PROVE Asked(q)' /\ Place(q)'
    <3>1. Asked(q)'
      BY <1>7 DEF Broken, Asked
    <3>2. CASE q = r
      <4>1. pc[r] = "sent" /\ UNCHANGED <<kind, mode, flow, begun>>
        BY <1>7 DEF Broken
      <4>2. RetryOr(r, Reply(502, "whole"))
        BY <1>7 DEF Broken
      <4> HIDE DEF RetryOr, Reply
      <4>3. Place(r)'
        BY <4>1, <4>2, RetryPlaces
      <4> QED BY <3>1, <3>2, <4>3
    <3>3. CASE q # r
      <4>1. pc'[q] = pc[q] /\ reply'[q] = reply[q] /\ UNCHANGED <<kind, mode, flow, begun>>
        BY <1>7, <3>3 DEF Broken, Types
      <4>2. Place(q)
        OBVIOUS
      <4> QED BY <3>1, <4>1, <4>2 DEF Place
    <3> QED BY <3>2, <3>3
  <2>3. ASSUME NEW q \in Requests PROVE Connection(q)'
    BY <1>7 DEF Broken, Types, Place, Connection
  <2> QED BY <2>1, <2>2, <2>3
<1>8. CASE Raise(r)
  <2>1. Types'
    BY <1>8 DEF Raise, Types
  <2>2. ASSUME NEW q \in Requests PROVE Asked(q)' /\ Place(q)'
    <3>1. Asked(q)'
      BY <1>8 DEF Raise, Asked
    <3>2. CASE q = r
      BY <1>8, <3>1, <3>2 DEF Raise, Types, Asked, Place
    <3>3. CASE q # r
      BY <1>8, <3>1, <3>3 DEF Raise, Types, Place
    <3> QED BY <3>2, <3>3
  <2>3. ASSUME NEW q \in Requests PROVE Connection(q)'
    <3>1. CASE mode[r] = "sync"
      BY <1>8, <3>1 DEF Raise, Types, Place, Connection
    <3>2. CASE mode[r] # "sync"
      <4>1. mode[r] = "stream" /\ kind[r] = "raw"
        BY <1>8, <3>2 DEF Raise, Types, Asked, Place
      <4> QED BY <1>8, <3>2, <4>1 DEF Raise, Types, Place, Connection
    <3> QED BY <3>1, <3>2
  <2> QED BY <2>1, <2>2, <2>3
<1>9. CASE AnswerSync(r)
  <2>1. Types'
    <3>1. Answered'
      BY <1>9, AttemptAnswers
    <3>2. held' \subseteq Requests /\ dropped' \subseteq Requests /\ upstream' \in Nat
      BY <1>9 DEF AnswerSync, Types
    <3> QED BY <1>9, <3>1, <3>2 DEF AnswerSync, Answered, Types
  <2>2. ASSUME NEW q \in Requests PROVE Asked(q)' /\ Place(q)'
    BY <1>9 DEF AnswerSync, Types, Asked, Place
  <2>3. ASSUME NEW q \in Requests PROVE Connection(q)'
    BY <1>9 DEF AnswerSync, Types, Place, Connection
  <2> QED BY <2>1, <2>2, <2>3
<1>10. CASE OpenStream(r)
  <2>1. Types'
    <3>1. /\ pc' \in [Requests -> Steps] /\ noted' \in [Requests -> Nat]
          /\ reply' \in [Requests -> [status : Nat, body : Ways]]
      BY <1>10 DEF OpenStream, Types
    <3>2. held' \subseteq Requests /\ dropped' \subseteq Requests /\ upstream' \in Nat
      BY <1>10 DEF OpenStream, Types
    <3> QED BY <1>10, <3>1, <3>2 DEF OpenStream, Types
  <2>2. ASSUME NEW q \in Requests PROVE Asked(q)' /\ Place(q)'
    <3>1. Asked(q)'
      BY <1>10 DEF OpenStream, Asked
    <3>2. CASE q = r
      <4>1. /\ pc[r] = "sent" /\ mode[r] = "stream" /\ kind[r] = "raw"
            /\ UNCHANGED <<kind, mode, flow, begun>>
        BY <1>10 DEF OpenStream, Asked
      <4>2. PICK body \in {"sse", "bytes"} : Return(r, [status |-> 200, body |-> body])
        BY <1>10 DEF OpenStream
      <4> HIDE DEF Return
      <4>3. Place(r)'
        BY <4>1, <4>2, ReturnPlaces
      <4> QED BY <3>1, <3>2, <4>3
    <3>3. CASE q # r
      BY <1>10, <3>1, <3>3 DEF OpenStream, Types, Place
    <3> QED BY <3>2, <3>3
  <2>3. ASSUME NEW q \in Requests PROVE Connection(q)'
    BY <1>10 DEF OpenStream, Types, Place, Connection
  <2> QED BY <2>1, <2>2, <2>3
<1>11. CASE RefuseStream(r)
  <2>1. Types'
    BY <1>11 DEF RefuseStream, Types
  <2>2. ASSUME NEW q \in Requests PROVE Asked(q)' /\ Place(q)'
    BY <1>11 DEF RefuseStream, Types, Asked, Place
  <2>3. ASSUME NEW q \in Requests PROVE Connection(q)'
    BY <1>11 DEF RefuseStream, Types, Place, Connection
  <2> QED BY <2>1, <2>2, <2>3
<1>12. CASE InvokeAgain(r)
  BY <1>12 DEF InvokeAgain, Asked, Place, Connection
<1>13. CASE InvokeAnswered(r)
  <2>0. PICK s \in (Statuses \ Retryable) \union {500, 502} : Return(r, Reply(s, "whole"))
    BY <1>13 DEF InvokeAnswered
  <2>1. s \in Nat /\ Return(r, [status |-> s, body |-> "whole"]) /\ Leave(r)
    <3>1. s \in Nat
      BY <2>0
    <3>2. Return(r, [status |-> s, body |-> "whole"])
      BY <2>0
    <3>3. Leave(r)
      BY <1>13 DEF InvokeAnswered
    <3> QED BY <3>1, <3>2, <3>3
  <2>2. pc[r] = "sent" /\ UNCHANGED <<mode, limit, attempt, late, sends, lateSends>>
    BY <1>13 DEF InvokeAnswered
  <2>3. Types'
    <3>1. Answered'
      BY <2>1, ReturnAnswers
    <3>2. held' \subseteq Requests /\ dropped' \subseteq Requests /\ upstream' \in Nat
      BY <2>1
    <3> QED BY <2>2, <3>1, <3>2 DEF Answered
  <2>4. ASSUME NEW q \in Requests PROVE Asked(q)' /\ Place(q)'
    BY <2>1, <2>2 DEF Asked, Place
  <2>5. ASSUME NEW q \in Requests PROVE Connection(q)'
    BY <2>1, <2>2 DEF Place, Connection
  <2> QED BY <2>3, <2>4, <2>5
<1>14. CASE Drained(r)
  <2>1. reply[r].status \in Nat
    OBVIOUS
  <2>2. CASE reply[r].status \in Retryable /\ AttemptsLeft(r)
    <3>1. Types'
      <4>1. /\ pc' = [pc EXCEPT ![r] = "asleep"] /\ noted' = [noted EXCEPT ![r] = @ + 1]
            /\ reply' = [reply EXCEPT ![r] = [status |-> 0, body |-> "none"]]
        BY <1>14, <2>2 DEF Drained
      <4>2. /\ pc' \in [Requests -> Steps] /\ noted' \in [Requests -> Nat]
            /\ reply' \in [Requests -> [status : Nat, body : Ways]]
        BY <4>1
      <4> QED BY <1>14, <4>2 DEF Drained
    <3>2. ASSUME NEW q \in Requests PROVE Asked(q)' /\ Place(q)'
      <4>1. Asked(q)'
        BY <1>14, <2>2 DEF Drained, Asked
      <4>2. CASE q = r
        <5>1. /\ pc[r] = "drain" /\ pc' = [pc EXCEPT ![r] = "asleep"]
              /\ reply' = [reply EXCEPT ![r] = [status |-> 0, body |-> "none"]]
              /\ UNCHANGED <<kind, mode, flow, begun>>
          BY <1>14, <2>2 DEF Drained
        <5>2. pc'[r] = "asleep" /\ reply'[r] = [status |-> 0, body |-> "none"]
          BY <5>1
        <5>3. Place(r)
          OBVIOUS
        <5>4. Place(r)'
          BY <5>1, <5>2, <5>3 DEF Place
        <5> QED BY <4>1, <4>2, <5>4
      <4>3. CASE q # r
        BY <1>14, <2>2, <4>1, <4>3 DEF Drained, Place
      <4> QED BY <4>2, <4>3
    <3>3. ASSUME NEW q \in Requests PROVE Connection(q)'
      BY <1>14, <2>2 DEF Drained, Place, Connection
    <3> QED BY <3>1, <3>2, <3>3
  <2>3. CASE ~(reply[r].status \in Retryable /\ AttemptsLeft(r))
    <3>1. Return(r, [status |-> reply[r].status, body |-> "whole"]) /\ Leave(r)
      BY <1>14, <2>3 DEF Drained
    <3>2. Types'
      BY <1>14, <2>1, <3>1 DEF Drained
    <3>3. ASSUME NEW q \in Requests PROVE Asked(q)' /\ Place(q)'
      BY <1>14, <2>1, <3>1 DEF Drained, Asked, Place
    <3>4. ASSUME NEW q \in Requests PROVE Connection(q)'
      BY <1>14, <2>1, <3>1 DEF Drained, Place, Connection
    <3> QED BY <3>2, <3>3, <3>4
  <2> QED BY <2>2, <2>3
<1>15. CASE DrainFails(r)
  BY <1>15 DEF DrainFails, Asked, Place, Connection
<1> QED
  BY <1>1, <1>2, <1>3, <1>4, <1>5, <1>6, <1>7, <1>8, <1>9, <1>10, <1>11, <1>12, <1>13,
     <1>14, <1>15 DEF Passthrough, AttemptEnds

LEMMA RecordIsTyped ==
  ASSUME Types, NEW r \in Requests, Record(r)
  PROVE  /\ active' \in Nat
         /\ records' \in Seq([req : Requests, status : Nat, retries : Nat])
BY DEF Types, Record, Less

LEMMA MiddlewareKeeps ==
  ASSUME PlaceInv, NEW r \in Requests,
         \/ Arrive(r) \/ Handle(r) \/ Dispatch(r) \/ PassBytes(r) \/ RelayFrames(r)
         \/ UpstreamTalks(r) \/ Buffered(r) \/ Begin(r) \/ NeverBegun(r) \/ StreamOver(r)
         \/ CloseGenerator(r) \/ Collected(r)
  PROVE  PlaceInv'
<1> USE DEF PlaceInv, middleware, choice, loop, conns,
            Enter, Leave, Drop, Less, Go, Return, Reply, Raised, NoReply,
            Steps, Ways, Flows
<1>1. CASE Arrive(r)
  <2>1. Types'
    <3>1. /\ pc' \in [Requests -> Steps] /\ noted' \in [Requests -> Nat]
          /\ reply' \in [Requests -> [status : Nat, body : Ways]]
      <4>1. CASE Allowed(r)
        BY <1>1, <4>1 DEF Arrive, Types
      <4>2. CASE ~Allowed(r)
        <5>1. /\ pc' = [pc EXCEPT ![r] = "replied"] /\ noted' = noted
              /\ reply' = [reply EXCEPT ![r] = [status |-> 401, body |-> "whole"]]
          BY <1>1, <4>2 DEF Arrive
        <5>2. [status |-> 401, body |-> "whole"] \in [status : Nat, body : Ways]
          OBVIOUS
        <5>3. pc' \in [Requests -> Steps]
          BY <5>1 DEF Types
        <5>4. reply' \in [Requests -> [status : Nat, body : Ways]]
          BY <5>1, <5>2 DEF Types
        <5> QED BY <5>1, <5>3, <5>4 DEF Types
      <4> QED BY <4>1, <4>2
    <3>2. held' \subseteq Requests /\ dropped' \subseteq Requests /\ upstream' \in Nat
      BY <1>1 DEF Arrive, Types
    <3> QED BY <1>1, <3>1, <3>2 DEF Arrive, Types
  <2>2. ASSUME NEW q \in Requests PROVE Asked(q)' /\ Place(q)'
    <3>1. Asked(q)'
      BY <1>1 DEF Arrive, Asked
    <3>2. CASE q = r
      BY <1>1, <3>1, <3>2 DEF Arrive, Types, Asked, Place
    <3>3. CASE q # r
      BY <1>1, <3>1, <3>3 DEF Arrive, Types, Place
    <3> QED BY <3>2, <3>3
  <2>3. ASSUME NEW q \in Requests PROVE Connection(q)'
    BY <1>1 DEF Arrive, Types, Place, Connection
  <2> QED BY <2>1, <2>2, <2>3
<1>2. CASE Handle(r)
  <2>1. Types'
    <3>1. /\ pc' \in [Requests -> Steps] /\ noted' \in [Requests -> Nat]
          /\ reply' \in [Requests -> [status : Nat, body : Ways]]
      <4>1. CASE \E st \in Nat, body \in Ways :
                   /\ pc' = [pc EXCEPT ![r] = "replied"]
                   /\ reply' = [reply EXCEPT ![r] = [status |-> st, body |-> body]]
                   /\ UNCHANGED noted
        BY <4>1 DEF Types
      <4>2. \E st \in Nat, body \in Ways :
               /\ pc' = [pc EXCEPT ![r] = "replied"]
               /\ reply' = [reply EXCEPT ![r] = [status |-> st, body |-> body]]
               /\ UNCHANGED noted
        <5>1. ASSUME NEW st \in Statuses \union {200}, Return(r, Reply(st, "whole"))
              PROVE  <4>2!:
          <6>1. st \in Nat /\ "whole" \in Ways
            BY DEF Statuses
          <6>2. /\ pc' = [pc EXCEPT ![r] = "replied"] /\ UNCHANGED noted
                /\ reply' = [reply EXCEPT ![r] = [status |-> st, body |-> "whole"]]
            BY <5>1
          <6> QED BY <6>1, <6>2
        <5>2. CASE Return(r, Raised) \/ Return(r, Reply(200, "sse"))
          BY <5>2
        <5> QED BY <1>2, <5>1, <5>2 DEF Handle
      <4> QED BY <4>1, <4>2
    <3>2. held' \subseteq Requests /\ dropped' \subseteq Requests /\ upstream' \in Nat
      BY <1>2 DEF Handle, Statuses, Types
    <3> QED BY <1>2, <3>1, <3>2 DEF Handle, Statuses, Types
  <2>2. ASSUME NEW q \in Requests PROVE Asked(q)' /\ Place(q)'
    <3>1. Asked(q)'
      BY <1>2 DEF Handle, Statuses, Asked
    <3>2. CASE q = r
      <4>1. pc[r] = "handling" /\ UNCHANGED <<kind, mode, flow, begun>>
        BY <1>2 DEF Handle
      <4>2. Asked(r) /\ Place(r)
        OBVIOUS
      <4>3. \/ \E s : Return(r, Reply(s, "whole"))
            \/ Return(r, Raised)
            \/ kind[r] = "native" /\ Return(r, Reply(200, "sse"))
        BY <1>2 DEF Handle
      <4>4. kind[r] = "native" => mode[r] = "stream"
        BY <4>2 DEF Asked
      <4> HIDE DEF Return
      <4>5. Place(r)'
        BY <4>1, <4>3, <4>4, ReturnPlaces
      <4> QED BY <3>1, <3>2, <4>5
    <3>3. CASE q # r
      BY <1>2, <3>1, <3>3 DEF Handle, Statuses, Types, Place
    <3> QED BY <3>2, <3>3
  <2>3. ASSUME NEW q \in Requests PROVE Connection(q)'
    BY <1>2 DEF Handle, Statuses, Types, Place, Connection
  <2> QED BY <2>1, <2>2, <2>3
<1>3. CASE Dispatch(r)
  <2>1. Types'
    BY <1>3, RecordIsTyped DEF Dispatch, Types
  <2>2. ASSUME NEW q \in Requests PROVE Asked(q)' /\ Place(q)'
    BY <1>3 DEF Dispatch, Record, Types, Asked, Place
  <2>3. ASSUME NEW q \in Requests PROVE Connection(q)'
    <3>1. CASE q = r
      <4>1. /\ held' = held /\ dropped' = dropped /\ reply' = reply /\ begun' = begun
            /\ kind' = kind /\ mode' = mode /\ pc[r] = "replied"
        BY <1>3 DEF Dispatch
      <4>2. CASE pc' = [pc EXCEPT ![r] = "over"] /\ flow' = flow /\ reply[r].body \notin {"sse", "bytes"}
        <5>1. r \notin held /\ pc'[r] = "over"
          BY <4>1, <4>2 DEF Types, Connection
        <5>2. r \in dropped =>
                \/ reply[r] = Raised /\ kind[r] = "raw" /\ mode[r] = "stream"
                \/ reply[r].body = "sse" /\ r \notin begun
          BY <4>1 DEF Connection
        <5> QED BY <3>1, <4>1, <4>2, <5>1, <5>2 DEF Connection
      <4>3. CASE /\ pc' = [pc EXCEPT ![r] = IF reply[r].body = "sse" THEN "streaming" ELSE "buffering"]
                 /\ flow' = [flow EXCEPT ![r] = "open"] /\ reply[r].body \in {"sse", "bytes"}
        BY <1>3, <3>1, <4>1, <4>3 DEF Dispatch, Types, Place, Connection
      <4> QED BY <1>3, <4>2, <4>3 DEF Dispatch, Place, Counted
    <3>2. CASE q # r
      BY <1>3, <3>2 DEF Dispatch, Types, Place, Connection
    <3> QED BY <3>1, <3>2
  <2> QED BY <2>1, <2>2, <2>3
<1>4. CASE PassBytes(r)
  BY <1>4 DEF PassBytes, Types, Asked, Place, Connection
<1>5. CASE RelayFrames(r)
  <2>1. Types'
    <3>1. /\ pc' \in [Requests -> Steps] /\ noted' \in [Requests -> Nat]
          /\ reply' \in [Requests -> [status : Nat, body : Ways]]
      BY <1>5 DEF RelayFrames, Types
    <3>2. held' \subseteq Requests /\ dropped' \subseteq Requests /\ upstream' \in Nat
      BY <1>5 DEF RelayFrames, Types
    <3> QED BY <1>5, <3>1, <3>2 DEF RelayFrames, Types
  <2>2. ASSUME NEW q \in Requests PROVE Asked(q)' /\ Place(q)'
    BY <1>5 DEF RelayFrames, Types, Asked, Place
  <2>3. ASSUME NEW q \in Requests PROVE Connection(q)'
    BY <1>5 DEF RelayFrames, Types, Place, Connection
  <2> QED BY <2>1, <2>2, <2>3
<1>6. CASE UpstreamTalks(r)
  BY <1>6 DEF UpstreamTalks, Types, Asked, Place, Connection
<1>7. CASE Buffered(r)
  <2>1. Types'
    BY <1>7, RecordIsTyped DEF Buffered, Miss, Types
  <2>2. ASSUME NEW q \in Requests PROVE Asked(q)' /\ Place(q)' /\ Connection(q)'
    BY <1>7 DEF Buffered, Types, Asked, Place, Connection
  <2> QED BY <2>1, <2>2
<1>8. CASE Begin(r)
  <2>1. Types'
    <3>1. /\ pc' \in [Requests -> Steps] /\ noted' \in [Requests -> Nat]
          /\ reply' \in [Requests -> [status : Nat, body : Ways]]
      BY <1>8 DEF Begin, Types
    <3>2. held' \subseteq Requests /\ dropped' \subseteq Requests /\ upstream' \in Nat
      BY <1>8 DEF Begin, Types
    <3> QED BY <1>8, <3>1, <3>2 DEF Begin, Types
  <2>2. ASSUME NEW q \in Requests PROVE Asked(q)' /\ Place(q)'
    BY <1>8 DEF Begin, Types, Asked, Place
  <2>3. ASSUME NEW q \in Requests PROVE Connection(q)'
    BY <1>8 DEF Begin, Types, Place, Connection
  <2> QED BY <2>1, <2>2, <2>3
<1>9. CASE NeverBegun(r)
  <2> USE <1>9 DEF NeverBegun, Miss, Types
  <2>1. CASE r \in held /\ Drop(r) /\ flow' = [flow EXCEPT ![r] = "broken"]
    <3>1. Types'
      BY <2>1
    <3>2. ASSUME NEW q \in Requests PROVE Asked(q)' /\ Place(q)'
      BY <2>1 DEF Asked, Place
    <3>3. ASSUME NEW q \in Requests PROVE Connection(q)'
      BY <2>1 DEF Place, Connection
    <3> QED BY <3>1, <3>2, <3>3
  <2>2. CASE UNCHANGED <<conns, flow>>
    <3>1. Types'
      BY <2>2
    <3>2. ASSUME NEW q \in Requests PROVE Asked(q)' /\ Place(q)'
      BY <2>2 DEF Asked, Place
    <3>3. ASSUME NEW q \in Requests PROVE Connection(q)'
      BY <2>2 DEF Place, Connection
    <3> QED BY <3>1, <3>2, <3>3
  <2> QED BY <2>1, <2>2
<1>10. CASE StreamOver(r)
  <2>1. Types'
    BY <1>10, RecordIsTyped DEF StreamOver, Types
  <2> QED BY <1>10, <2>1 DEF StreamOver, Types, Asked, Place, Connection
<1>11. CASE CloseGenerator(r)
  BY <1>11 DEF CloseGenerator, Types, Asked, Place, Connection
<1>12. CASE Collected(r)
  BY <1>12 DEF Collected, Collect, Types, Asked, Place, Connection
<1> QED
  BY <1>1, <1>2, <1>3, <1>4, <1>5, <1>6, <1>7, <1>8, <1>9, <1>10, <1>11, <1>12

LEMMA PlaceStep == PlaceInv /\ [Next]_vars => PlaceInv'
<1>1. CASE UNCHANGED vars
  BY <1>1 DEF PlaceInv, Types, Asked, Place, Connection, vars, middleware, choice, loop, conns
<1> QED BY <1>1, LoopKeeps, MiddlewareKeeps DEF Next

-----------------------------------------------------------------------------
(* The ledgers.  A loop is first reduced to what it does to its counters,  *)
(* a middleware to what it does to its gauge; the invariants follow from   *)
(* those moves.                                                            *)

\* What one step of a loop does with its request's counters.
LoopMove(r) ==
  \/ /\ late' = late \union {r}
     /\ UNCHANGED <<pc, attempt, sends, lateSends, noted>>
  \/ /\ pc[r] = "loop" /\ ~Exhausted(r) /\ pc' = [pc EXCEPT ![r] = "sent"]
     /\ sends' = [sends EXCEPT ![r] = @ + 1]
     /\ lateSends' = [lateSends EXCEPT ![r] = IF r \in late THEN @ + 1 ELSE @]
     /\ UNCHANGED <<attempt, late, noted>>
  \/ /\ pc[r] = "loop" /\ Exhausted(r) /\ pc' = [pc EXCEPT ![r] = "replied"]
     /\ UNCHANGED loop
  \/ /\ pc[r] = "asleep" /\ pc' = [pc EXCEPT ![r] = "loop"]
     /\ attempt' = [attempt EXCEPT ![r] = @ + 1]
     /\ UNCHANGED <<late, sends, lateSends, noted>>
  \/ /\ pc[r] \in {"sent", "drain"} /\ pc' = [pc EXCEPT ![r] = "asleep"]
     /\ noted' = [noted EXCEPT ![r] = @ + 1]
     /\ mode[r] # "invoke" => AttemptsLeft(r)
     /\ mode[r] = "sync" => r \notin late
     /\ UNCHANGED <<attempt, late, sends, lateSends>>
  \/ /\ pc[r] \in {"sent", "drain"} /\ pc' = [pc EXCEPT ![r] = "replied"]
     /\ UNCHANGED loop
  \/ /\ pc[r] = "sent" /\ pc' = [pc EXCEPT ![r] = "drain"]
     /\ UNCHANGED loop

\* And one step of the middlewares or of another handler.
MiddlewareMove(r) ==
  /\ UNCHANGED loop
  /\ \/ UNCHANGED pc
     \/ pc[r] = "idle" /\ \E to \in {"loop", "handling", "replied"} : pc' = [pc EXCEPT ![r] = to]
     \/ /\ pc[r] \in {"handling", "replied", "streaming", "buffering"}
        /\ \E to \in {"replied", "streaming", "buffering", "over"} : pc' = [pc EXCEPT ![r] = to]

LEMMA RetryMoves ==
  ASSUME NEW r \in Requests, pc[r] = "sent", NEW rep,
         RetryOr(r, rep) \/ Return(r, rep),
         UNCHANGED <<mode, limit, attempt, late, sends, lateSends>>
  PROVE  LoopMove(r) /\ UNCHANGED <<mode, limit>>
<1>1. CASE Return(r, rep)
  BY <1>1 DEF Return, LoopMove, loop
<1>2. CASE AttemptsLeft(r) /\ r \notin late /\ Backoff(r)
  BY <1>2 DEF Backoff, LoopMove
<1> QED BY <1>1, <1>2 DEF RetryOr

LEMMA RawMoves ==
  ASSUME PlaceInv, NEW r \in Requests, Raw(r)
  PROVE  LoopMove(r) /\ UNCHANGED <<choice, relay, middleware>>
<1>1. SUFFICES LoopMove(r) /\ UNCHANGED <<mode, limit>>
  BY DEF Raw, choice
<1>2. CASE Expire(r) \/ Send(r) \/ Unavailable(r) \/ Wake(r)
  BY <1>2 DEF Expire, Send, Unavailable, Wake, Return, LoopMove, loop
<1>3. CASE ConnectTimeout(r) \/ Broken(r)
  BY <1>3, RetryMoves DEF ConnectTimeout, Broken
<1>4. CASE ReadTimeout(r) \/ Raise(r) \/ InvokeAnswered(r)
  BY <1>4, RetryMoves DEF ReadTimeout, Raise, InvokeAnswered
<1>5. CASE AnswerSync(r)
  BY <1>5, RetryMoves DEF AnswerSync
<1>6. CASE OpenStream(r) \/ RefuseStream(r)
  BY <1>6 DEF OpenStream, RefuseStream, Return, LoopMove, loop
<1>7. CASE InvokeAgain(r)
  BY <1>7 DEF InvokeAgain, Backoff, LoopMove
<1>8. CASE Drained(r)
  <2>1. mode[r] = "stream"
    BY <1>8 DEF Drained, PlaceInv, Place
  <2> QED BY <1>8, <2>1 DEF Drained, Return, LoopMove, loop
<1>9. CASE DrainFails(r)
  BY <1>9 DEF DrainFails, Return, LoopMove, loop
<1> QED
  BY <1>2, <1>3, <1>4, <1>5, <1>6, <1>7, <1>8, <1>9 DEF Raw, Passthrough, AttemptEnds

Around(r) ==
  \/ Arrive(r) \/ Handle(r) \/ Dispatch(r) \/ PassBytes(r) \/ RelayFrames(r)
  \/ UpstreamTalks(r) \/ Buffered(r) \/ Begin(r) \/ NeverBegun(r) \/ StreamOver(r)
  \/ CloseGenerator(r) \/ Collected(r)

LEMMA AroundMoves ==
  ASSUME NEW r \in Requests, Around(r)
  PROVE  MiddlewareMove(r) /\ UNCHANGED choice
<1>1. CASE Arrive(r)
  BY <1>1 DEF Arrive, Go, MiddlewareMove
<1>2. CASE Handle(r)
  BY <1>2 DEF Handle, Return, MiddlewareMove, loop, choice
<1>3. CASE Dispatch(r)
  BY <1>3 DEF Dispatch, Go, MiddlewareMove
<1>4. CASE Buffered(r) \/ NeverBegun(r) \/ StreamOver(r)
  BY <1>4 DEF Buffered, NeverBegun, StreamOver, Go, MiddlewareMove
<1>5. CASE PassBytes(r) \/ RelayFrames(r) \/ UpstreamTalks(r) \/ Begin(r)
  BY <1>5 DEF PassBytes, RelayFrames, UpstreamTalks, Begin, MiddlewareMove
<1>6. CASE CloseGenerator(r) \/ Collected(r)
  BY <1>6 DEF CloseGenerator, Collected, Collect, MiddlewareMove, choice
<1> QED BY <1>1, <1>2, <1>3, <1>4, <1>5, <1>6 DEF Around

-----------------------------------------------------------------------------
\* Every turn of a loop is paid for: what was sent, slept and noted goes with the attempt.
Ledger(r) ==
  /\ attempt[r] <= limit /\ sends[r] <= limit /\ noted[r] <= limit
  /\ lateSends[r] <= sends[r]
  /\ pc[r] \in {"idle", "loop", "handling"} => sends[r] = attempt[r] /\ noted[r] = attempt[r]
  /\ pc[r] \in {"idle", "handling"} => attempt[r] = 0
  /\ pc[r] \in {"sent", "drain"} =>
       attempt[r] < limit /\ sends[r] = attempt[r] + 1 /\ noted[r] = attempt[r]
  /\ pc[r] = "asleep" =>
       attempt[r] < limit /\ sends[r] = attempt[r] + 1 /\ noted[r] = attempt[r] + 1
  /\ pc[r] = "asleep" /\ mode[r] # "invoke" => sends[r] < limit
  /\ pc[r] = "loop" /\ mode[r] # "invoke" => attempt[r] < limit \/ attempt[r] = 0
  /\ pc[r] \in {"replied", "streaming", "buffering", "over"} /\ sends[r] > 0 =>
       noted[r] = sends[r] - 1 \/ (mode[r] = "invoke" /\ noted[r] = sends[r])

\* After the deadline a loop has at most the one turn it already slept for.
LateLedger(r) ==
  /\ lateSends[r] > 0 => r \in late
  /\ mode[r] = "sync" =>
       /\ lateSends[r] <= 1
       /\ lateSends[r] = 1 => pc[r] \notin {"idle", "loop", "asleep"}
  /\ mode[r] = "invoke" /\ lateSends[r] > 0 => lateSends[r] = 1 /\ sends[r] = 1

LedgerInv ==
  /\ PlaceInv
  /\ limit \in 0..MaxRetries /\ late \subseteq Requests
  /\ \A r \in Requests : Ledger(r) /\ LateLedger(r)

LEMMA LedgerInit == Init => LedgerInv
<1> SUFFICES ASSUME Init PROVE LedgerInv
  OBVIOUS
<1>1. PlaceInv
  BY PlaceInit
<1>2. limit \in 0..MaxRetries /\ late \subseteq Requests
  BY DEF Init
<1>3. ASSUME NEW r \in Requests PROVE Ledger(r) /\ LateLedger(r)
  BY <1>2 DEF Init, Ledger, LateLedger
<1> QED BY <1>1, <1>2, <1>3 DEF LedgerInv

LEMMA LoopMovePays ==
  ASSUME LedgerInv, NEW r \in Requests, LoopMove(r), UNCHANGED choice
  PROVE  late' \subseteq Requests /\ \A q \in Requests : Ledger(q)' /\ LateLedger(q)'
<1> USE DEF choice
<1>0. /\ Types /\ Asked(r) /\ Place(r) /\ Ledger(r) /\ LateLedger(r) /\ limit \in Nat
      /\ late \subseteq Requests
  BY DEF LedgerInv, PlaceInv
<1>1. late' \subseteq Requests
  BY <1>0 DEF LoopMove, loop
<1>2. ASSUME NEW q \in Requests, q # r PROVE Ledger(q)' /\ LateLedger(q)'
  <2>1. /\ pc'[q] = pc[q] /\ attempt'[q] = attempt[q] /\ sends'[q] = sends[q]
        /\ lateSends'[q] = lateSends[q] /\ noted'[q] = noted[q]
        /\ q \in late' <=> q \in late
    BY <1>0, <1>2 DEF LoopMove, Types, loop
  <2>2. Ledger(q) /\ LateLedger(q)
    BY DEF LedgerInv
  <2> QED BY <2>1, <2>2 DEF Ledger, LateLedger
<1>3. Ledger(r)'
  BY <1>0 DEF LoopMove, Types, Ledger, Exhausted, AttemptsLeft, loop
<1>4. LateLedger(r)'
  BY <1>0 DEF LoopMove, Types, Ledger, LateLedger, Place, Exhausted, AttemptsLeft, loop
<1> QED BY <1>1, <1>2, <1>3, <1>4

LEMMA MiddlewareMovePays ==
  ASSUME LedgerInv, NEW r \in Requests, MiddlewareMove(r), UNCHANGED choice
  PROVE  late' \subseteq Requests /\ \A q \in Requests : Ledger(q)' /\ LateLedger(q)'
<1> USE DEF choice, loop
<1>1. /\ Types /\ limit \in Nat /\ late \subseteq Requests
  BY DEF LedgerInv, PlaceInv
<1>2. ASSUME NEW q \in Requests PROVE Ledger(q)' /\ LateLedger(q)'
  <2>1. Ledger(q) /\ LateLedger(q)
    BY DEF LedgerInv
  <2>2. CASE q = r
    BY <1>1, <2>1, <2>2 DEF MiddlewareMove, Types, Ledger, LateLedger
  <2>3. CASE q # r
    BY <1>1, <2>1, <2>3 DEF MiddlewareMove, Types, Ledger, LateLedger
  <2> QED BY <2>2, <2>3
<1> QED BY <1>1, <1>2 DEF MiddlewareMove

LEMMA LedgerStep == LedgerInv /\ [Next]_vars => LedgerInv'
<1> SUFFICES ASSUME LedgerInv, [Next]_vars PROVE LedgerInv'
  OBVIOUS
<1>1. PlaceInv /\ PlaceInv'
  BY PlaceStep DEF LedgerInv
<1>2. CASE UNCHANGED vars
  BY <1>1, <1>2 DEF LedgerInv, Ledger, LateLedger, vars, choice, loop
<1>3. CASE Next
  <2>1. PICK r \in Requests : Raw(r) \/ Around(r)
    BY <1>3 DEF Next, Around
  <2>2. UNCHANGED choice /\ (LoopMove(r) \/ MiddlewareMove(r))
    BY <1>1, <2>1, RawMoves, AroundMoves
  <2> QED BY <1>1, <2>2, LoopMovePays, MiddlewareMovePays DEF LedgerInv, choice
<1> QED BY <1>2, <1>3

LEMMA LedgerAlways == Spec => []LedgerInv
BY LedgerInit, LedgerStep, PTL DEF Spec

\* No retry of an invocation is sent after its deadline, whenever that passes: late can
\* only be the first send, and then it is the only one.
THEOREM InvocationsRetryInTime == Spec => []NoLateRetry
<1>1. LedgerInv => NoLateRetry
  <2> SUFFICES ASSUME LedgerInv, NEW r \in Requests, mode[r] = "invoke", lateSends[r] > 0
               PROVE  sends[r] = 1
    BY DEF NoLateRetry
  <2> QED BY DEF LedgerInv, LateLedger
<1> QED BY <1>1, LedgerAlways, PTL

-----------------------------------------------------------------------------
\* The upstream gauge

\* What one step does with the gauge: it never takes back what it did not put there.
GaugeMove(r) ==
  \/ UNCHANGED conns
  \/ r \notin held /\ Enter(r)
  \/ r \in held /\ Leave(r)
  \/ r \in held /\ r \notin dropped /\ Drop(r)
  \/ /\ r \in dropped /\ upstream' = Less(upstream)
     /\ dropped' = dropped \ {r} /\ UNCHANGED held

LEMMA RawMovesGauge ==
  ASSUME PlaceInv, NEW r \in Requests, Raw(r)
  PROVE  GaugeMove(r)
<1>1. /\ pc[r] \in {"sent", "drain"} => r \in held /\ r \notin dropped
      /\ pc[r] = "loop" => r \notin held
  BY DEF PlaceInv, Connection, Place, NoReply, Reply
<1>2. CASE Expire(r) \/ Unavailable(r) \/ Wake(r) \/ OpenStream(r) \/ RefuseStream(r)
  BY <1>2 DEF Expire, Unavailable, Wake, OpenStream, RefuseStream, GaugeMove, conns
<1>3. CASE Send(r)
  BY <1>1, <1>3 DEF Send, GaugeMove
<1>4. CASE ConnectTimeout(r) \/ ReadTimeout(r) \/ Broken(r)
  BY <1>1, <1>4 DEF ConnectTimeout, ReadTimeout, Broken, GaugeMove
<1>5. CASE AnswerSync(r) \/ InvokeAgain(r) \/ InvokeAnswered(r) \/ Drained(r)
  BY <1>1, <1>5 DEF AnswerSync, InvokeAgain, InvokeAnswered, Drained, GaugeMove
<1>6. CASE Raise(r) \/ DrainFails(r)
  BY <1>1, <1>6 DEF Raise, DrainFails, GaugeMove
<1> QED
  BY <1>2, <1>3, <1>4, <1>5, <1>6 DEF Raw, Passthrough, AttemptEnds

LEMMA AroundMovesGauge ==
  ASSUME PlaceInv, NEW r \in Requests, Around(r)
  PROVE  GaugeMove(r)
<1>1. /\ pc[r] \in {"streaming", "buffering"} /\ flow[r] = "open" => r \in held
      /\ r \in held => r \notin dropped
      /\ pc[r] = "handling" => r \notin held
  BY DEF PlaceInv, Connection, Place, NoReply, Reply
<1>2. CASE Arrive(r) \/ Dispatch(r) \/ UpstreamTalks(r) \/ Buffered(r) \/ Begin(r) \/ StreamOver(r)
  BY <1>2 DEF Arrive, Dispatch, UpstreamTalks, Buffered, Begin, StreamOver, GaugeMove, conns
<1>3. CASE Handle(r)
  BY <1>1, <1>3 DEF Handle, GaugeMove
<1>4. CASE PassBytes(r) \/ RelayFrames(r) \/ CloseGenerator(r)
  BY <1>1, <1>4 DEF PassBytes, RelayFrames, CloseGenerator, GaugeMove
<1>5. CASE NeverBegun(r)
  BY <1>1, <1>5 DEF NeverBegun, GaugeMove, conns
<1>6. CASE Collected(r)
  BY <1>6 DEF Collected, Collect, GaugeMove
<1> QED
  BY <1>2, <1>3, <1>4, <1>5, <1>6 DEF Around

GaugeInv == PlaceInv /\ upstream = Cardinality(held) + Cardinality(dropped)

LEMMA GaugeStep == GaugeInv /\ [Next]_vars => GaugeInv'
<1> SUFFICES ASSUME GaugeInv, [Next]_vars PROVE GaugeInv'
  OBVIOUS
<1>1. PlaceInv /\ PlaceInv'
  BY PlaceStep DEF GaugeInv
<1>2. /\ IsFiniteSet(held) /\ IsFiniteSet(dropped) /\ upstream \in Nat
      /\ Cardinality(held) \in Nat /\ Cardinality(dropped) \in Nat
  BY <1>1, FS_Subset, FS_CardinalityType DEF PlaceInv, Types
<1>3. CASE UNCHANGED vars
  BY <1>1, <1>3 DEF GaugeInv, vars, conns
<1>4. CASE Next
  <2>1. PICK r \in Requests : GaugeMove(r)
    BY <1>1, <1>4, RawMovesGauge, AroundMovesGauge DEF Next, Around
  <2>2. CASE UNCHANGED conns
    BY <1>1, <2>2 DEF GaugeInv, conns
  <2>3. CASE r \notin held /\ Enter(r)
    <3>1. Cardinality(held \union {r}) = Cardinality(held) + 1
      BY <1>2, <2>3, FS_AddElement
    <3> QED BY <1>1, <1>2, <2>3, <3>1 DEF GaugeInv, Enter
  <2>4. CASE r \in held /\ Leave(r)
    <3>1. Cardinality(held \ {r}) = Cardinality(held) - 1 /\ Cardinality(held) > 0
      BY <1>2, <2>4, FS_RemoveElement, FS_EmptySet
    <3> QED BY <1>1, <1>2, <2>4, <3>1 DEF GaugeInv, Leave, Less
  <2>5. CASE r \in held /\ r \notin dropped /\ Drop(r)
    <3>1. Cardinality(held \ {r}) = Cardinality(held) - 1
      BY <1>2, <2>5, FS_RemoveElement
    <3>2. Cardinality(dropped \union {r}) = Cardinality(dropped) + 1
      BY <1>2, <2>5, FS_AddElement
    <3> QED BY <1>1, <1>2, <2>5, <3>1, <3>2 DEF GaugeInv, Drop
  <2>6. CASE /\ r \in dropped /\ upstream' = Less(upstream)
             /\ dropped' = dropped \ {r} /\ UNCHANGED held
    <3>1. Cardinality(dropped \ {r}) = Cardinality(dropped) - 1
      BY <1>2, <2>6, FS_RemoveElement
    <3>2. Cardinality(dropped) # 0
      BY <1>2, <2>6, FS_EmptySet
    <3> QED BY <1>1, <1>2, <2>6, <3>1, <3>2 DEF GaugeInv, Less
  <2> QED BY <2>1, <2>2, <2>3, <2>4, <2>5, <2>6 DEF GaugeMove
<1> QED BY <1>3, <1>4

\* The upstream gauge is the connections that are held and those left to the interpreter,
\* each once; a request holds one only for an attempt under way or a stream that has not
\* ended; and neither the sync loop, an invocation nor a begun stream leaves one behind.
THEOREM GaugeIsAccounted == Spec => []ConnectionsAccounted
<1>1. Init => GaugeInv
  BY PlaceInit, FS_EmptySet DEF Init, GaugeInv
<1>2. GaugeInv => ConnectionsAccounted
  <2> SUFFICES ASSUME GaugeInv PROVE ConnectionsAccounted
    OBVIOUS
  <2>1. \A r \in Requests : Connection(r) /\ Place(r)
    BY DEF GaugeInv, PlaceInv
  <2>2. held \subseteq Requests /\ dropped \subseteq Requests
    BY DEF GaugeInv, PlaceInv, Types
  <2>3. ASSUME NEW r \in Requests, mode[r] # "stream" \/ r \in begun PROVE r \notin dropped
    BY <2>1, <2>3 DEF Connection, Place, Raised, Reply
  <2>4. \A r \in held :
          \/ pc[r] \in {"sent", "drain"}
          \/ reply[r].body \in {"sse", "bytes"} /\ flow[r] \in {"none", "open"}
    BY <2>1, <2>2 DEF Connection
  <2>5. held \intersect dropped = {}
    BY <2>1, <2>2 DEF Connection
  <2> QED BY <2>3, <2>4, <2>5 DEF GaugeInv, ConnectionsAccounted
<1> QED BY <1>1, <1>2, GaugeStep, PTL DEF Spec

-----------------------------------------------------------------------------
\* The gauge of requests in flight, and the records

\* A request that is over and was not recorded has one of two excuses.
Excused(r) ==
  \/ reply[r].body = "bytes" /\ flow[r] = "broken"
  \/ reply[r].body = "sse" /\ r \notin begun

Counts(r) ==
  /\ Recorded(r) # {} => pc[r] = "over"
  /\ \A i, j \in Recorded(r) : i = j
  /\ pc[r] = "over" /\ kind[r] \in Counted /\ Recorded(r) = {} => Excused(r)

\* No upstream here answers 403, and who brought no key was told so.
Truthful(r) ==
  /\ reply[r].status # 403
  /\ kind[r] \in Counted /\ r \notin keyed /\ pc[r] # "idle" =>
       pc[r] \in {"replied", "over"} /\ reply[r] = Reply(401, "whole")

\* What one step does to its own request's answer.
Answers(r) ==
  \/ UNCHANGED reply
  \/ /\ pc[r] \in {"idle", "loop", "sent", "drain", "handling"}
     /\ \E rep : rep.status # 403 /\ reply' = [reply EXCEPT ![r] = rep]

LEMMA RetryMayAnswer ==
  ASSUME NEW r \in Requests, NEW rep, rep.status # 403, RetryOr(r, rep) \/ Return(r, rep),
         pc[r] \in {"idle", "loop", "sent", "drain", "handling"}
  PROVE  Answers(r)
BY DEF RetryOr, Return, Backoff, Answers

LEMMA Statuses403 ==
  /\ \A s \in Statuses \union {500, 502, 504} : \A body : Reply(s, body).status # 403
  /\ Raised.status # 403 /\ NoReply.status # 403
BY DEF Statuses, Reply, Raised, NoReply

LEMMA RawAnswers ==
  ASSUME NEW r \in Requests, Truthful(r), Raw(r)
  PROVE  Answers(r) /\ pc[r] \in {"loop", "sent", "drain", "asleep"}
<1> USE Statuses403
<1>1. CASE Expire(r) \/ Send(r) \/ Wake(r)
  BY <1>1 DEF Expire, Send, Wake, Answers
<1>2. CASE Unavailable(r)
  BY <1>2, RetryMayAnswer DEF Unavailable
<1>3. CASE ConnectTimeout(r) \/ Broken(r)
  BY <1>3, RetryMayAnswer DEF ConnectTimeout, Broken
<1>4. CASE ReadTimeout(r)
  <2>1. PICK s \in {502, 504} : Return(r, Reply(s, "whole"))
    BY <1>4 DEF ReadTimeout
  <2> QED BY <1>4, <2>1, RetryMayAnswer DEF ReadTimeout
<1>5. CASE Raise(r) \/ DrainFails(r)
  BY <1>5, RetryMayAnswer DEF Raise, DrainFails
<1>6. CASE AnswerSync(r)
  BY <1>6, RetryMayAnswer DEF AnswerSync
<1>7. CASE InvokeAgain(r)
  BY <1>7 DEF InvokeAgain, Backoff, Answers
<1>8. CASE InvokeAnswered(r)
  BY <1>8, RetryMayAnswer DEF InvokeAnswered
<1>9. CASE OpenStream(r)
  <2>1. PICK body \in {"sse", "bytes"} : Return(r, Reply(200, body))
    BY <1>9 DEF OpenStream
  <2>2. Reply(200, body).status # 403
    BY DEF Reply
  <2> QED BY <1>9, <2>1, <2>2, RetryMayAnswer DEF OpenStream
<1>10. CASE RefuseStream(r)
  <2>1. PICK s \in Statuses : reply' = [reply EXCEPT ![r] = Reply(s, "unread")]
    BY <1>10 DEF RefuseStream
  <2>2. Reply(s, "unread").status # 403
    OBVIOUS
  <2> QED BY <1>10, <2>1, <2>2 DEF RefuseStream, Answers
<1>11. CASE Drained(r)
  <2>1. Reply(reply[r].status, "whole").status # 403
    BY DEF Truthful, Reply
  <2>2. pc[r] = "drain"
    BY <1>11 DEF Drained
  <2>3. CASE reply' = [reply EXCEPT ![r] = NoReply]
    BY <2>2, <2>3 DEF Answers
  <2>4. CASE Return(r, Reply(reply[r].status, "whole"))
    BY <2>1, <2>2, <2>4, RetryMayAnswer
  <2> QED BY <1>11, <2>2, <2>3, <2>4 DEF Drained
<1> QED
  BY <1>1, <1>2, <1>3, <1>4, <1>5, <1>6, <1>7, <1>8, <1>9, <1>10, <1>11
  DEF Raw, Passthrough, AttemptEnds

LEMMA AroundAnswers ==
  ASSUME NEW r \in Requests, Around(r)
  PROVE  Answers(r)
<1> USE Statuses403
<1>1. CASE Arrive(r)
  <2>1. 401 \in Statuses
    BY DEF Statuses
  <2> QED BY <1>1, <2>1 DEF Arrive, Answers
<1>2. CASE Handle(r)
  <2>1. 200 \in Statuses
    BY DEF Statuses
  <2>2. \A s \in IF kind[r] \in Counted THEN Statuses ELSE {200} : s \in Statuses
    BY <2>1
  <2> QED BY <1>2, <2>1, <2>2, RetryMayAnswer DEF Handle
<1>3. CASE Dispatch(r) \/ Buffered(r) \/ NeverBegun(r) \/ StreamOver(r)
  BY <1>3 DEF Dispatch, Buffered, NeverBegun, StreamOver, Answers
<1>4. CASE PassBytes(r) \/ RelayFrames(r) \/ UpstreamTalks(r) \/ Begin(r)
  BY <1>4 DEF PassBytes, RelayFrames, UpstreamTalks, Begin, Answers
<1>5. CASE CloseGenerator(r) \/ Collected(r)
  BY <1>5 DEF CloseGenerator, Collected, Collect, Answers
<1> QED BY <1>1, <1>2, <1>3, <1>4, <1>5 DEF Around

\* What one step does to the middlewares' view of the other requests: nothing.
Alone(r) ==
  \A q \in Requests \ {r} :
    /\ pc'[q] = pc[q] /\ reply'[q] = reply[q] /\ flow'[q] = flow[q]
    /\ q \in begun' <=> q \in begun

\* The three ways in which a step may be counted.
Arrives(r) ==
  /\ pc[r] = "idle" /\ pc'[r] \in {"loop", "handling", "replied"}
  /\ active' = IF kind[r] \in Counted THEN active + 1 ELSE active
  /\ UNCHANGED <<records, errorRun, authFailed>>

Finishes(r) ==
  /\ kind[r] \in Counted /\ pc[r] \in {"replied", "streaming", "buffering"}
  /\ pc'[r] = "over" /\ Record(r) /\ UNCHANGED reply

Goes(r) ==
  /\ UNCHANGED <<records, active, errorRun, authFailed>>
  /\ pc[r] # "idle" /\ pc'[r] # "idle"
  /\ pc[r] = "over" => pc'[r] = "over" /\ (Excused(r) => Excused(r)')
  /\ pc[r] # "over" /\ pc'[r] = "over" => kind[r] \notin Counted \/ Excused(r)'

LEMMA RawCounts ==
  ASSUME PlaceInv, NEW r \in Requests, Truthful(r), Raw(r)
  PROVE  Alone(r) /\ Goes(r) /\ Truthful(r)'
<1>1. /\ Answers(r) /\ pc[r] \in {"loop", "sent", "drain", "asleep"}
      /\ LoopMove(r) /\ UNCHANGED <<choice, middleware>>
  BY RawAnswers, RawMoves
<1>2. Types /\ kind[r] \in Counted
  BY DEF Raw, Looping, Counted, PlaceInv
<1>3. Alone(r)
  BY <1>1, <1>2 DEF Types, Alone, Answers, LoopMove, loop, middleware
<1>4. Goes(r)
  BY <1>1, <1>2 DEF Types, Goes, LoopMove, loop, middleware
<1>5. Truthful(r)'
  <2>1. r \in keyed
    BY <1>1, <1>2 DEF Truthful
  <2>2. reply'[r].status # 403
    BY <1>1, <1>2 DEF Types, Truthful, Answers
  <2> QED BY <1>1, <2>1, <2>2 DEF Truthful, choice
<1> QED BY <1>1, <1>2, <1>3, <1>4, <1>5

LEMMA BegunGrows ==
  ASSUME NEW r \in Requests, Around(r)
  PROVE  begun' = begun \/ begun' = begun \union {r}
BY DEF Around, Arrive, Handle, middleware, Dispatch, PassBytes, RelayFrames, UpstreamTalks,
       Buffered, Begin, NeverBegun, StreamOver, CloseGenerator, Collected

LEMMA AroundCounts ==
  ASSUME PlaceInv, NEW r \in Requests, Truthful(r), Around(r)
  PROVE  Alone(r) /\ (Arrives(r) \/ Finishes(r) \/ Goes(r)) /\ Truthful(r)'
<1>1. /\ Types /\ Place(r) /\ Connection(r) /\ Answers(r) /\ MiddlewareMove(r) /\ UNCHANGED choice
  BY AroundAnswers, AroundMoves DEF PlaceInv
<1>2. Alone(r)
  <2>1. \A q \in Requests \ {r} : pc'[q] = pc[q] /\ reply'[q] = reply[q]
    BY <1>1 DEF Types, Answers, MiddlewareMove
  <2>2. flow' = flow \/ \E f : flow' = [flow EXCEPT ![r] = f]
    BY DEF Around, Arrive, Handle, middleware, Dispatch, PassBytes, RelayFrames, UpstreamTalks,
           Buffered, Begin, NeverBegun, StreamOver, CloseGenerator, Collected
  <2> QED BY <1>1, <2>1, <2>2, BegunGrows DEF Types, Alone
<1>3. Arrives(r) \/ Finishes(r) \/ Goes(r)
  <2>1. CASE Arrive(r)
    BY <1>1, <2>1 DEF Arrive, Go, Arrives, Types
  <2>2. CASE Handle(r)
    BY <1>1, <2>2 DEF Handle, Return, Goes, Types, middleware
  <2>3. CASE Dispatch(r)
    BY <1>1, <2>3 DEF Dispatch, Go, Goes, Finishes, Types
  <2>4. CASE PassBytes(r) \/ RelayFrames(r) \/ UpstreamTalks(r) \/ Begin(r)
    BY <1>1, <2>4 DEF PassBytes, RelayFrames, UpstreamTalks, Begin, Goes, Types, middleware
  <2>5. CASE Buffered(r)
    BY <1>1, <2>5 DEF Buffered, Miss, Go, Goes, Finishes, Types, Place, Excused, Counted
  <2>6. CASE NeverBegun(r)
    BY <1>1, <2>6 DEF NeverBegun, Miss, Go, Goes, Types, Place, Excused
  <2>7. CASE StreamOver(r)
    BY <1>1, <2>7 DEF StreamOver, Go, Finishes, Types, Place, Counted
  <2>8. CASE CloseGenerator(r)
    BY <1>1, <2>8 DEF CloseGenerator, Goes, Types, Excused
  <2>9. CASE Collected(r)
    BY <1>1, <2>9 DEF Collected, Collect, Connection, Goes, Types, Excused, middleware
  <2> QED BY <2>1, <2>2, <2>3, <2>4, <2>5, <2>6, <2>7, <2>8, <2>9 DEF Around
<1>4. Truthful(r)'
  <2>1. reply'[r].status # 403
    BY <1>1 DEF Types, Truthful, Answers
  <2>2. CASE Arrive(r)
    BY <1>1, <2>1, <2>2 DEF Arrive, Go, Allowed, Types, Truthful, choice, Counted
  <2>3. CASE ~Arrive(r)
    <3>1. CASE pc[r] = "idle"
      <4>1. Collected(r)
        BY <2>3, <3>1 DEF Around, Handle, Dispatch, Buffered, NeverBegun, StreamOver,
           PassBytes, RelayFrames, UpstreamTalks, Begin, CloseGenerator
      <4> QED BY <1>1, <3>1, <4>1 DEF Collected, Collect, Connection
    <3>2. CASE pc[r] # "idle"
      <4> SUFFICES ASSUME kind[r] \in Counted, r \notin keyed
                   PROVE  pc'[r] \in {"replied", "over"} /\ reply'[r] = Reply(401, "whole")
        BY <1>1, <2>1 DEF Truthful, choice
      <4>1. pc[r] \in {"replied", "over"} /\ reply[r] = Reply(401, "whole")
        BY <3>2 DEF Truthful
      <4>2. reply' = reply
        BY <1>1, <4>1 DEF Answers
      <4>3. CASE Dispatch(r)
        BY <1>1, <4>1, <4>2, <4>3 DEF Dispatch, Go, Reply, Types
      <4>4. CASE ~Dispatch(r)
        <5>1. pc' = pc
          BY <2>3, <4>1, <4>4 DEF Around, Handle, Buffered, NeverBegun, StreamOver,
             PassBytes, RelayFrames, UpstreamTalks, Begin, CloseGenerator, Collected, Collect
        <5> QED BY <4>1, <4>2, <5>1
      <4> QED BY <4>3, <4>4
    <3> QED BY <3>1, <3>2
  <2> QED BY <2>2, <2>3
<1> QED BY <1>2, <1>3, <1>4

-----------------------------------------------------------------------------
\* The records that make up the run of errors.
Failing(recs) ==
  {i \in DOMAIN recs : /\ recs[i].status >= 500
                       /\ \A j \in i..Len(recs) : recs[j].status >= 400}

Row == [req : Requests, status : Nat, retries : Nat]

LEMMA FailingIsFinite ==
  ASSUME NEW recs \in Seq(Row)
  PROVE  IsFiniteSet(Failing(recs)) /\ Cardinality(Failing(recs)) \in Nat
<1>1. Len(recs) \in Nat /\ DOMAIN recs = 1..Len(recs)
  OBVIOUS
<1>2. IsFiniteSet(1..Len(recs))
  BY <1>1, FS_Interval
<1>3. Failing(recs) \subseteq 1..Len(recs)
  BY <1>1 DEF Failing
<1> QED BY <1>2, <1>3, FS_Subset, FS_CardinalityType

LEMMA RunOfErrors ==
  ASSUME NEW recs \in Seq(Row), NEW rec \in Row
  PROVE  /\ Cardinality(Failing(recs)) \in Nat
         /\ Cardinality(Failing(Append(recs, rec))) =
              IF rec.status >= 500 THEN Cardinality(Failing(recs)) + 1
              ELSE IF rec.status < 400 THEN 0 ELSE Cardinality(Failing(recs))
<1> DEFINE n == Len(recs)  longer == Append(recs, rec)
<1>1. /\ n \in Nat /\ Len(longer) = n + 1 /\ longer[n + 1] = rec /\ DOMAIN recs = 1..n
      /\ DOMAIN longer = 1..(n + 1) /\ \A i \in 1..n : longer[i] = recs[i] /\ recs[i].status \in Nat
  <2>1. n \in Nat /\ DOMAIN recs = 1..n /\ \A i \in 1..n : recs[i] \in Row
    OBVIOUS
  <2>2. /\ Len(longer) = n + 1 /\ longer[n + 1] = rec
        /\ DOMAIN longer = 1..(n + 1) /\ \A i \in 1..n : longer[i] = recs[i]
    OBVIOUS
  <2>3. \A row \in Row : row.status \in Nat
    BY DEF Row
  <2> QED BY <2>1, <2>2, <2>3
<1>2. rec.status \in Nat
  BY DEF Row
<1>3. IsFiniteSet(Failing(recs)) /\ Cardinality(Failing(recs)) \in Nat
  BY FailingIsFinite
<1>4. n + 1 \notin Failing(recs)
  BY <1>1 DEF Failing
<1> HIDE DEF n, longer
<1>5. CASE rec.status >= 500
  <2>1. Failing(longer) = Failing(recs) \union {n + 1}
    <3>1. ASSUME NEW i \in 1..n PROVE i \in Failing(longer) <=> i \in Failing(recs)
      <4>1. longer[n + 1].status >= 400 /\ longer[i].status = recs[i].status
        BY <1>1, <1>2, <1>5
      <4>2. \A j \in i..(n + 1) : j \in i..n \/ j = n + 1
        BY <1>1
      <4>3. \A j \in i..n : longer[j].status = recs[j].status /\ j \in i..(n + 1)
        BY <1>1
      <4>4. (\A j \in i..(n + 1) : longer[j].status >= 400) <=> (\A j \in i..n : recs[j].status >= 400)
        BY <4>1, <4>2, <4>3
      <4>5. i \in 1..(n + 1)
        BY <1>1
      <4> QED BY <4>1, <4>4, <4>5, <1>1 DEF Failing, n
    <3>2. n + 1 \in Failing(longer)
      BY <1>1, <1>2, <1>5 DEF Failing
    <3>3. Failing(longer) \subseteq 1..n \union {n + 1} /\ Failing(recs) \subseteq 1..n
      BY <1>1 DEF Failing
    <3> QED BY <3>1, <3>2, <3>3
  <2> QED BY <1>3, <1>4, <1>5, <2>1, FS_AddElement DEF longer
<1>6. CASE rec.status < 400
  <2>1. Failing(longer) = {}
    BY <1>1, <1>2, <1>6 DEF Failing
  <2> QED BY <1>2, <1>3, <1>6, <2>1, FS_EmptySet DEF longer
<1>7. CASE ~(rec.status >= 500) /\ ~(rec.status < 400)
  <2>1. Failing(longer) = Failing(recs)
    BY <1>1, <1>2, <1>7 DEF Failing, n
  <2> QED BY <1>3, <1>7, <2>1 DEF longer
<1> QED BY <1>5, <1>6, <1>7

\* The inductive invariant of the records.
Recording ==
  /\ \A i \in DOMAIN records :
       LET r == records[i].req IN
         /\ records[i].status = reply[r].status /\ records[i].retries = noted[r]
         /\ kind[r] \in Counted
  /\ errorRun = Cardinality(Failing(records))
  /\ authFailed = \E i \in DOMAIN records : records[i].status = 401

RecordsInv ==
  /\ PlaceInv
  /\ \A r \in Requests : Counts(r) /\ Truthful(r)
  /\ active = Cardinality(Awaited)
  /\ Recording

LEMMA RecordsInit == Init => RecordsInv
<1> SUFFICES ASSUME Init PROVE RecordsInv
  OBVIOUS
<1>1. records = <<>> /\ \A r \in Requests : pc[r] = "idle" /\ reply[r] = NoReply
  BY DEF Init
<1>2. \A r \in Requests : Counts(r) /\ Truthful(r)
  BY <1>1 DEF Counts, Truthful, Recorded, NoReply, Reply
<1>3. Awaited = {} /\ Failing(records) = {}
  BY <1>1 DEF Awaited, Failing
<1>4. active = 0 /\ errorRun = 0 /\ authFailed = FALSE
  BY DEF Init
<1>5. Recording
  <2>1. DOMAIN records = {}
    BY <1>1
  <2>2. errorRun = Cardinality(Failing(records))
    BY <1>3, <1>4, FS_EmptySet
  <2>3. authFailed = \E i \in DOMAIN records : records[i].status = 401
    BY <1>4, <2>1
  <2> QED BY <2>1, <2>2, <2>3 DEF Recording
<1> QED BY <1>2, <1>3, <1>4, <1>5, PlaceInit, FS_EmptySet DEF RecordsInv

\* What every step of the specification is to the records.
Step(r) ==
  /\ Alone(r) /\ (Arrives(r) \/ Finishes(r) \/ Goes(r)) /\ Truthful(r)'
  /\ UNCHANGED <<kind, keyed>>
  /\ \A q \in Requests : pc[q] = "over" => reply'[q] = reply[q] /\ noted'[q] = noted[q]
  /\ Finishes(r) => noted' = noted

LEMMA NextIsStep ==
  ASSUME RecordsInv, Next
  PROVE  \E r \in Requests : Step(r)
<1>1. PICK r \in Requests : Raw(r) \/ Around(r)
  BY DEF Next, Around
<1>2. PlaceInv /\ Types /\ Truthful(r)
  BY DEF RecordsInv, PlaceInv
<1>3. /\ Alone(r) /\ (Arrives(r) \/ Finishes(r) \/ Goes(r)) /\ Truthful(r)' /\ Answers(r)
      /\ UNCHANGED choice /\ (LoopMove(r) \/ MiddlewareMove(r))
  BY <1>1, <1>2, RawCounts, AroundCounts, RawAnswers, AroundAnswers, RawMoves, AroundMoves
<1>4. \A q \in Requests : pc[q] = "over" => reply'[q] = reply[q]
  BY <1>2, <1>3 DEF Answers, Types
<1>5. \A q \in Requests : pc[q] = "over" => noted'[q] = noted[q]
  BY <1>2, <1>3 DEF LoopMove, MiddlewareMove, loop, Types
<1>6. Finishes(r) => noted' = noted
  BY <1>2, <1>3 DEF Finishes, LoopMove, MiddlewareMove, loop, Types
<1> QED BY <1>3, <1>4, <1>5, <1>6 DEF Step, choice

LEMMA RecordedAreOver ==
  ASSUME RecordsInv
  PROVE  \A i \in DOMAIN records : records[i].req \in Requests /\ pc[records[i].req] = "over"
<1> SUFFICES ASSUME NEW i \in DOMAIN records
             PROVE  records[i].req \in Requests /\ pc[records[i].req] = "over"
  OBVIOUS
<1>1. records \in Seq(Row)
  BY DEF RecordsInv, PlaceInv, Types, Row
<1>2. records[i] \in Row
  BY <1>1
<1>3. records[i].req \in Requests
  BY <1>2 DEF Row
<1>4. i \in Recorded(records[i].req)
  BY DEF Recorded
<1> QED BY <1>3, <1>4 DEF RecordsInv, Counts

LEMMA GoesKeeps ==
  ASSUME RecordsInv, PlaceInv', NEW r \in Requests, Step(r), Goes(r)
  PROVE  RecordsInv'
<1>1. \A q \in Requests : Recorded(q)' = Recorded(q)
  BY DEF Recorded, Goes
<1>2. ASSUME NEW q \in Requests PROVE Counts(q)' /\ Truthful(q)'
  <2>1. Counts(q) /\ Truthful(q)
    BY DEF RecordsInv
  <2>2. CASE q = r
    BY <1>1, <2>1, <2>2 DEF Counts, Step, Goes
  <2>3. CASE q # r
    BY <1>1, <2>1, <2>3 DEF Counts, Truthful, Step, Alone, Excused
  <2> QED BY <2>2, <2>3
<1>3. Awaited' = Awaited
  BY <1>1 DEF Awaited, Step, Alone, Goes
<1>4. Recording'
  <2> QED BY RecordedAreOver DEF RecordsInv, Recording, Step, Goes
<1> QED BY <1>2, <1>3, <1>4 DEF RecordsInv, Goes

LEMMA ArrivesKeeps ==
  ASSUME RecordsInv, PlaceInv', NEW r \in Requests, Step(r), Arrives(r)
  PROVE  RecordsInv'
<1>0. Recorded(r) = {} /\ r \notin Awaited
  BY DEF RecordsInv, Counts, Arrives, Awaited
<1>1. \A q \in Requests : Recorded(q)' = Recorded(q)
  BY DEF Recorded, Arrives
<1>2. ASSUME NEW q \in Requests PROVE Counts(q)' /\ Truthful(q)'
  <2>1. Counts(q) /\ Truthful(q)
    BY DEF RecordsInv
  <2>2. CASE q = r
    BY <1>0, <1>1, <2>1, <2>2 DEF Counts, Step, Arrives
  <2>3. CASE q # r
    BY <1>1, <2>1, <2>3 DEF Counts, Truthful, Step, Alone, Excused
  <2> QED BY <2>2, <2>3
<1>3. Awaited' = IF kind[r] \in Counted THEN Awaited \union {r} ELSE Awaited
  BY <1>0, <1>1 DEF Awaited, Step, Alone, Arrives
<1>4. active' = Cardinality(Awaited')
  <2>1. IsFiniteSet(Awaited)
    BY FS_Subset DEF Awaited
  <2>2. Cardinality(Awaited \union {r}) = Cardinality(Awaited) + 1
    BY <1>0, <2>1, FS_AddElement
  <2> QED BY <1>3, <2>2 DEF RecordsInv, Arrives
<1>5. Recording'
  BY RecordedAreOver DEF RecordsInv, Recording, Step, Arrives
<1> QED BY <1>2, <1>4, <1>5 DEF RecordsInv

LEMMA FinishesKeeps ==
  ASSUME RecordsInv, PlaceInv', NEW r \in Requests, Step(r), Finishes(r)
  PROVE  RecordsInv'
<1> DEFINE rec == [req |-> r, status |-> reply[r].status, retries |-> noted[r]]  n == Len(records)
<1>0. Recorded(r) = {} /\ r \in Awaited
  BY DEF RecordsInv, Counts, Finishes, Awaited
<1>1. records \in Seq(Row) /\ Types
  BY DEF RecordsInv, PlaceInv, Types, Row
<1>2. rec \in Row
  BY <1>1 DEF Types, Row
<1>3. /\ records' = Append(records, rec) /\ active' = Less(active) /\ CountStatus(rec.status)
      /\ reply' = reply /\ noted' = noted /\ kind' = kind
  BY DEF Finishes, Record, Step
<1>4. /\ DOMAIN records = 1..n /\ DOMAIN records' = 1..(n + 1) /\ n \in Nat
      /\ records'[n + 1] = rec /\ \A i \in 1..n : records'[i] = records[i]
  BY <1>1, <1>2, <1>3
<1> HIDE DEF rec, n
<1>5. rec.req = r /\ rec.status = reply[r].status /\ rec.retries = noted[r]
  BY DEF rec
<1>6. Recorded(r)' = {n + 1} /\ \A q \in Requests \ {r} : Recorded(q)' = Recorded(q)
  <2>1. \A i \in 1..n : records[i].req # r
    BY <1>0, <1>4 DEF Recorded
  <2>2. 1..(n + 1) = 1..n \union {n + 1} /\ n + 1 \notin 1..n
    BY <1>4
  <2>3. Recorded(r)' = {n + 1}
    BY <1>4, <1>5, <2>1, <2>2 DEF Recorded
  <2>4. \A q \in Requests \ {r} : Recorded(q)' = Recorded(q)
    BY <1>4, <1>5, <2>2 DEF Recorded
  <2> QED BY <2>3, <2>4
<1>7. ASSUME NEW q \in Requests PROVE Counts(q)' /\ Truthful(q)'
  <2>1. Counts(q) /\ Truthful(q)
    BY DEF RecordsInv
  <2>2. CASE q = r
    BY <1>6, <2>2 DEF Counts, Step, Finishes
  <2>3. CASE q # r
    BY <1>6, <2>1, <2>3 DEF Counts, Truthful, Step, Alone, Excused
  <2> QED BY <2>2, <2>3
<1>8. active' = Cardinality(Awaited')
  <2>1. Awaited' = Awaited \ {r}
    BY <1>6 DEF Awaited, Step, Alone
  <2>2. IsFiniteSet(Awaited) /\ Cardinality(Awaited) \in Nat
    BY FS_Subset, FS_CardinalityType DEF Awaited
  <2>3. Cardinality(Awaited \ {r}) = Cardinality(Awaited) - 1
    BY <1>0, <2>2, FS_RemoveElement
  <2>4. Cardinality(Awaited) # 0
    BY <1>0, <2>2, FS_EmptySet
  <2> QED BY <1>3, <2>1, <2>2, <2>3, <2>4 DEF RecordsInv, Less
<1>9. Recording'
  <2>1. errorRun' = Cardinality(Failing(records'))
    <3>1. errorRun = Cardinality(Failing(records)) /\ errorRun \in Nat
      BY <1>1, <1>2, RunOfErrors DEF RecordsInv, Recording
    <3>2. Cardinality(Failing(Append(records, rec))) =
            IF rec.status >= 500 THEN errorRun + 1 ELSE IF rec.status < 400 THEN 0 ELSE errorRun
      BY <1>1, <1>2, <3>1, RunOfErrors
    <3> QED BY <1>3, <3>1, <3>2 DEF CountStatus
  <2>2. authFailed' = \E i \in DOMAIN records' : records'[i].status = 401
    <3>1. authFailed = \E i \in 1..n : records[i].status = 401
      BY <1>4 DEF RecordsInv, Recording
    <3>2. rec.status # 403
      BY <1>5 DEF RecordsInv, Truthful
    <3>3. authFailed' = (authFailed \/ rec.status = 401)
      BY <1>3, <3>2 DEF CountStatus
    <3>4. 1..(n + 1) = 1..n \union {n + 1}
      BY <1>4
    <3>5. (\E i \in 1..(n + 1) : records'[i].status = 401) <=>
            (\E i \in 1..n : records[i].status = 401) \/ rec.status = 401
      BY <1>4, <3>4
    <3>6. (\E i \in DOMAIN records' : records'[i].status = 401) <=>
            (\E i \in 1..(n + 1) : records'[i].status = 401)
      BY <1>4
    <3> QED BY <3>1, <3>3, <3>5, <3>6
  <2>3. ASSUME NEW i \in DOMAIN records'
        PROVE  /\ records'[i].status = reply'[records'[i].req].status
               /\ records'[i].retries = noted'[records'[i].req]
               /\ kind'[records'[i].req] \in Counted
    <3>1. CASE i \in 1..n
      BY <1>3, <1>4, <3>1 DEF RecordsInv, Recording
    <3>2. CASE i = n + 1
      BY <1>3, <1>4, <1>5, <3>2 DEF Finishes
    <3> QED BY <1>4, <3>1, <3>2
  <2> QED BY <2>1, <2>2, <2>3 DEF Recording
<1> QED BY <1>7, <1>8, <1>9 DEF RecordsInv

LEMMA RecordsStep == RecordsInv /\ [Next]_vars => RecordsInv'
<1> SUFFICES ASSUME RecordsInv, [Next]_vars PROVE RecordsInv'
  OBVIOUS
<1>1. PlaceInv'
  BY PlaceStep DEF RecordsInv
<1>2. CASE UNCHANGED vars
  BY <1>1, <1>2 DEF RecordsInv, Counts, Truthful, Awaited, Recording, Recorded, Excused,
                    Failing, vars, choice, loop, middleware
<1>3. CASE Next
  BY <1>1, <1>3, NextIsStep, GoesKeeps, ArrivesKeeps, FinishesKeeps DEF Step
<1> QED BY <1>2, <1>3

LEMMA RecordsAlways == Spec => []RecordsInv
BY RecordsInit, RecordsStep, PTL DEF Spec

\* The gauge shows the requests that are counted in and not recorded, every one under way
\* among them; none is recorded twice; and each that is over and was answered whole, ended
\* in an exception, had its body read to the end or its stream begun has its record.
THEOREM RequestsAreCountedOnce == Spec => []CountedOutOnce
<1>1. ASSUME RecordsInv PROVE CountedOutOnce
  <2>1. ASSUME NEW r \in Requests PROVE Cardinality(Recorded(r)) <= 1
    <3>1. CASE Recorded(r) = {}
      BY <3>1, FS_EmptySet
    <3>2. CASE Recorded(r) # {}
      <4>1. PICK i \in Recorded(r) : TRUE
        BY <3>2
      <4>2. \A j \in Recorded(r) : j = i
        <5>1. Counts(r)
          BY <1>1 DEF RecordsInv
        <5> QED BY <4>1, <5>1 DEF Counts
      <4>3. Recorded(r) = {i}
        BY <4>1, <4>2
      <4>4. Cardinality({i}) = 1
        BY FS_Singleton
      <4> QED BY <4>3, <4>4
    <3> QED BY <3>1, <3>2
  <2>2. Ongoing \subseteq Awaited
    BY <1>1 DEF RecordsInv, Counts, Ongoing, Awaited
  <2>3. ASSUME NEW r \in Requests, pc[r] = "over", kind[r] \in Counted, Reached(r)
        PROVE  Recorded(r) # {}
    <3>1. Counts(r) /\ Place(r)
      BY <1>1 DEF RecordsInv, PlaceInv
    <3> QED BY <2>3, <3>1 DEF Counts, Excused, Reached, Place
  <2> QED BY <1>1, <2>1, <2>2, <2>3 DEF RecordsInv, CountedOutOnce
<1> QED BY <1>1, RecordsAlways, PTL

\* What is recorded is what the client was told, the run of errors is what the records
\* say, and an upstream's 401 has raised the flag of broken credentials.
THEOREM RecordsAreTruthful == Spec => []RecordsTellTheAnswers
<1>1. ASSUME RecordsInv, LedgerInv PROVE RecordsTellTheAnswers
  <2>1. ASSUME NEW i \in DOMAIN records
        PROVE  LET r == records[i].req IN
                 /\ records[i].status = reply[r].status
                 /\ sends[r] > 0 => records[i].retries \in
                      {sends[r] - 1} \union (IF kind[r] = "invoke" THEN {sends[r]} ELSE {})
                 /\ r \notin keyed => records[i].status = 401
    <3> DEFINE r == records[i].req
    <3>1. r \in Requests /\ pc[r] = "over"
      BY <1>1, RecordedAreOver
    <3>2. records[i].status = reply[r].status /\ records[i].retries = noted[r] /\ kind[r] \in Counted
      BY <1>1 DEF RecordsInv, Recording
    <3>3. Truthful(r) /\ Ledger(r) /\ Asked(r)
      BY <1>1, <3>1 DEF RecordsInv, LedgerInv, PlaceInv
    <3>4. r \notin keyed => reply[r].status = 401
      BY <3>1, <3>2, <3>3 DEF Truthful, Reply
    <3>5. sends[r] > 0 => noted[r] = sends[r] - 1 \/ (kind[r] = "invoke" /\ noted[r] = sends[r])
      BY <3>1, <3>3 DEF Ledger, Asked
    <3> QED BY <3>2, <3>4, <3>5
  <2>2. \A i \in DOMAIN records : records[i].req \in keyed /\ records[i].status = 401 => authFailed
    BY <1>1 DEF RecordsInv, Recording
  <2> QED BY <1>1, <2>1, <2>2 DEF RecordsInv, Recording, Failing, RecordsTellTheAnswers
<1> QED BY <1>1, RecordsAlways, LedgerAlways, PTL

\* The types of everything the middlewares and the loops keep.
THEOREM LifecycleTypeCorrect == Spec => []TypeOK
<1> DEFINE Rest == begun \subseteq Requests
<1>1. Init => Rest
  BY DEF Init
<1>2. Rest /\ RecordsInv /\ [Next]_vars => Rest'
  <2> SUFFICES ASSUME Rest, RecordsInv, [Next]_vars PROVE Rest'
    OBVIOUS
  <2>1. CASE UNCHANGED vars
    BY <2>1 DEF vars, middleware
  <2>2. ASSUME NEW r \in Requests, Raw(r) PROVE Rest'
    BY <2>2, RawMoves DEF RecordsInv, middleware
  <2>3. ASSUME NEW r \in Requests, Around(r) PROVE Rest'
    BY <2>3, BegunGrows
  <2> QED BY <2>1, <2>2, <2>3 DEF Next, Around
<1>3. ASSUME Rest, RecordsInv, LedgerInv PROVE TypeOK
  <2>1. errorRun \in Nat
    <3>1. records \in Seq(Row)
      BY <1>3 DEF RecordsInv, PlaceInv, Types, Row
    <3> QED BY <1>3, <3>1, FailingIsFinite DEF RecordsInv, Recording
  <2>2. authFailed \in BOOLEAN
    BY <1>3 DEF RecordsInv, Recording
  <2>3. \A r \in Requests : /\ attempt[r] \in 0..MaxRetries /\ sends[r] \in 0..MaxRetries
                            /\ noted[r] \in 0..MaxRetries /\ lateSends[r] \in 0..MaxRetries
    BY <1>3 DEF LedgerInv, PlaceInv, Types, Ledger
  <2> QED BY <1>3, <2>1, <2>2, <2>3 DEF LedgerInv, PlaceInv, Types, Steps, Flows, TypeOK
<1> QED BY <1>1, <1>2, <1>3, RecordsAlways, LedgerAlways, PTL DEF Spec

-----------------------------------------------------------------------------
\* The contract of an upstream call

\* The refinement mapping of Abs.
PhaseBar == [r \in Requests |-> Phase(r)]
FuelBar == [r \in Requests |-> MaxRetries - sends[r]]

LEMMA ContractMoves ==
  ASSUME NEW r \in Requests
  PROVE  /\ FuelBar' = FuelBar =>
              /\ PhaseBar[r] = "idle" /\ PhaseBar' = [PhaseBar EXCEPT ![r] = "working"]
                   => Abs!Begin(r)
              /\ PhaseBar[r] = "working" /\ PhaseBar' = [PhaseBar EXCEPT ![r] = "answered"]
                   => Abs!Answer(r)
              /\ PhaseBar[r] = "working" /\ PhaseBar' = [PhaseBar EXCEPT ![r] = "open"]
                   => Abs!Open(r)
              /\ PhaseBar[r] = "open" /\ PhaseBar' = [PhaseBar EXCEPT ![r] = "answered"]
                   => Abs!Close(r)
         /\ (/\ PhaseBar[r] = "working" /\ FuelBar[r] > 0 /\ PhaseBar' = PhaseBar
             /\ FuelBar' = [FuelBar EXCEPT ![r] = @ - 1]) => Abs!Attempt(r)
  BY DEF Abs!Begin, Abs!Attempt, Abs!Answer, Abs!Open, Abs!Close, PhaseBar, FuelBar

\* A loop is at work until it replies; an open stream is answered when it is over.
LEMMA PhaseMoves ==
  ASSUME RecordsInv, NEW r \in Requests, Raw(r) \/ Around(r)
  PROVE  /\ UNCHANGED sends /\ \/ Phase(r)' = Phase(r)
                               \/ Phase(r) = "idle" /\ Phase(r)' = "working"
                               \/ Phase(r) = "working" /\ Phase(r)' \in {"answered", "open"}
                               \/ Phase(r) = "open" /\ Phase(r)' = "answered"
         \/ /\ sends' = [sends EXCEPT ![r] = @ + 1]
            /\ Phase(r) = "working" /\ Phase(r)' = "working"
<1>1. /\ Types /\ Place(r) /\ Truthful(r) /\ PlaceInv
  BY DEF RecordsInv, PlaceInv
<1>2. CASE Raw(r)
  <2>1. /\ LoopMove(r) /\ pc[r] \in {"loop", "sent", "drain", "asleep"}
        /\ UNCHANGED <<kind, keyed>> /\ kind[r] \in Looping
    BY <1>1, <1>2, RawMoves, RawAnswers DEF choice, Raw
  <2>2. r \in keyed
    BY <1>1, <2>1 DEF Truthful, Looping, Counted
  <2>3. Allowed(r) /\ Allowed(r)' /\ Phase(r) = "working"
    BY <2>1, <2>2 DEF Allowed, Phase
  <2>4. CASE pc'[r] = "replied" /\ UNCHANGED sends
    BY <2>1, <2>3, <2>4 DEF Phase
  <2>5. CASE pc'[r] \in {"loop", "sent", "drain", "asleep"}
    <3>1. Phase(r)' = "working"
      BY <2>1, <2>3, <2>5 DEF Phase
    <3>2. sends' = sends \/ sends' = [sends EXCEPT ![r] = @ + 1]
      BY <2>1 DEF LoopMove, loop
    <3> QED BY <2>3, <3>1, <3>2
  <2> QED BY <1>1, <2>1, <2>4, <2>5 DEF LoopMove, Types, loop
<1>3. CASE Around(r)
  <2>1. /\ MiddlewareMove(r) /\ UNCHANGED <<kind, keyed, sends>> /\ Answers(r)
    BY <1>1, <1>3, AroundMoves, AroundAnswers DEF choice, MiddlewareMove, loop
  <2>2. Allowed(r)' = Allowed(r)
    BY <2>1 DEF Allowed
  <2>3. CASE kind[r] \notin Looping \/ ~Allowed(r)
    BY <2>1, <2>2, <2>3 DEF Phase
  <2>4. CASE kind[r] \in Looping /\ Allowed(r) /\ pc[r] = "idle"
    <3>1. CASE pc' = pc
      BY <2>1, <2>4, <3>1 DEF Phase
    <3>2. CASE pc' # pc
      <4>1. Arrive(r)
        BY <1>3, <2>4, <3>2 DEF Around, Handle, Dispatch, PassBytes, RelayFrames, UpstreamTalks,
          Buffered, Begin, NeverBegun, StreamOver, CloseGenerator, Collected, Collect
      <4>2. pc'[r] = "loop"
        BY <1>1, <2>4, <4>1 DEF Arrive, Go, Types
      <4> QED BY <2>1, <2>2, <2>4, <4>2 DEF Phase
    <3> QED BY <3>1, <3>2
  <2>5. CASE kind[r] \in Looping /\ Allowed(r) /\ pc[r] # "idle"
    <3>1. pc[r] # "handling"
      BY <1>1, <2>5 DEF Place, Looping
    <3>2. pc' = pc \/ pc'[r] \in {"replied", "streaming", "buffering", "over"}
      BY <1>1, <2>1, <2>5 DEF MiddlewareMove, Types
    <3>3. CASE pc' = pc
      <4>1. reply' = reply
        BY <1>3, <2>5, <3>1, <3>3 DEF Around, Arrive, Handle, Dispatch, PassBytes, RelayFrames,
          UpstreamTalks, Buffered, Begin, NeverBegun, StreamOver, CloseGenerator, Collected, Collect
      <4> QED BY <2>1, <2>2, <3>3, <4>1 DEF Phase
    <3>4. CASE pc' # pc
      <4>1. pc[r] \in {"replied", "streaming", "buffering"} /\ reply' = reply
        BY <2>1, <2>5, <3>1, <3>4 DEF MiddlewareMove, Answers
      <4>2. pc'[r] \in {"replied", "streaming", "buffering", "over"}
        BY <3>2, <3>4
      <4> QED BY <2>1, <2>2, <2>5, <4>1, <4>2 DEF Phase
    <3> QED BY <3>3, <3>4
  <2> QED BY <2>3, <2>4, <2>5
<1> QED BY <1>2, <1>3

LEMMA PhaseStep ==
  ASSUME RecordsInv, LedgerInv, LedgerInv', NEW r \in Requests, Raw(r) \/ Around(r)
  PROVE  [Abs!ContractNext]_(Abs!contractVars)
<1>1. Types /\ Truthful(r) /\ PlaceInv
  BY DEF RecordsInv, PlaceInv
<1>2. Alone(r) /\ UNCHANGED choice
  BY <1>1, RawCounts, AroundCounts, RawMoves, AroundMoves
<1>3. PhaseBar' = [PhaseBar EXCEPT ![r] = Phase(r)'] /\ PhaseBar[r] = Phase(r)
  <2>1. ASSUME NEW q \in Requests, q # r PROVE Phase(q)' = Phase(q)
    BY <1>2, <2>1 DEF Alone, Phase, Allowed, choice
  <2> QED BY <2>1 DEF PhaseBar
<1>4. CASE UNCHANGED sends
  <2>1. FuelBar' = FuelBar
    BY <1>4 DEF FuelBar
  <2>2. CASE Phase(r)' = Phase(r)
    <3>1. PhaseBar' = PhaseBar
      BY <1>3, <2>2 DEF PhaseBar
    <3> QED BY <2>1, <3>1 DEF Abs!contractVars, PhaseBar, FuelBar
  <2>3. CASE Phase(r)' # Phase(r)
    <3>1. Abs!Begin(r) \/ Abs!Answer(r) \/ Abs!Open(r) \/ Abs!Close(r)
      BY <1>3, <2>1, <2>3, PhaseMoves, ContractMoves
    <3> QED BY <3>1 DEF Abs!ContractNext
  <2> QED BY <2>2, <2>3
<1>5. CASE sends' # sends
  <2>1. /\ sends' = [sends EXCEPT ![r] = @ + 1] /\ Phase(r) = "working"
        /\ Phase(r)' = "working"
    BY <1>5, PhaseMoves
  <2>2. /\ limit' \in 0..MaxRetries /\ sends'[r] <= limit' /\ sends[r] \in Nat
        /\ sends'[r] = sends[r] + 1
    BY <1>1, <2>1 DEF LedgerInv, Ledger, Types
  <2>3. FuelBar[r] > 0
    BY <2>2 DEF FuelBar
  <2>4. FuelBar' = [FuelBar EXCEPT ![r] = @ - 1]
    <3>1. ASSUME NEW q \in Requests
          PROVE  MaxRetries - sends'[q] = IF q = r THEN (MaxRetries - sends[q]) - 1
                                          ELSE MaxRetries - sends[q]
      BY <1>1, <2>1 DEF Types
    <3> QED BY <3>1 DEF FuelBar
  <2>5. PhaseBar' = PhaseBar
    BY <1>3, <2>1 DEF PhaseBar
  <2> QED BY <1>3, <2>1, <2>3, <2>4, <2>5, ContractMoves DEF Abs!ContractNext
<1> QED BY <1>4, <1>5

\* The pass-through and the invocation keep the contract of an upstream call: no more
\* sends than max_retries, none once they have answered, and an answer that is final.
THEOREM PassthroughKeepsContract == Spec => Abs!Safety
<1>1. Init => Abs!ContractInit
  <2>1. Init => \A r \in Requests : Phase(r) = "idle" /\ MaxRetries - sends[r] = MaxRetries
    BY DEF Init, Phase
  <2> QED BY <2>1 DEF Abs!ContractInit
<1>2. RecordsInv /\ LedgerInv /\ LedgerInv' /\ [Next]_vars => [Abs!ContractNext]_(Abs!contractVars)
  <2> SUFFICES ASSUME RecordsInv, LedgerInv, LedgerInv', [Next]_vars
               PROVE  [Abs!ContractNext]_(Abs!contractVars)
    OBVIOUS
  <2>1. CASE UNCHANGED vars
    BY <2>1 DEF vars, choice, loop, Abs!contractVars, Phase, Allowed
  <2> QED BY <2>1, PhaseStep DEF Next, Around
<1> QED BY <1>1, <1>2, RecordsAlways, LedgerAlways, PTL DEF Spec, Abs!Safety

-----------------------------------------------------------------------------
\* The native relay

HIDE PassthroughAssumption DEF Looping

HalfFrames == [kind : Kinds, part : {1, 2}]

\* b holds the halves of the frames in h, of the last perhaps only the first.
Cut(b, h) ==
  /\ b \in Seq(HalfFrames)
  /\ Len(b) \in {2 * Len(h), 2 * Len(h) - 1}
  /\ \A k \in 1..Len(h) : /\ b[2 * k - 1] = Half(h[k], 1)
                          /\ 2 * k <= Len(b) => b[2 * k] = Half(h[k], 2)

\* How many frames of h can be decoded of b.
Whole(b, h) ==
  IF Len(b) = 2 * Len(h) \/ h[Len(h)] = "exception" THEN Len(h) ELSE Len(h) - 1

-----------------------------------------------------------------------------
\* Known events of a sequence in parts.

LEMMA SplitAt ==
  ASSUME NEW T, NEW s \in Seq(T), NEW m \in 0..Len(s)
  PROVE  /\ SubSeq(s, 1, m) \in Seq(T) /\ SubSeq(s, m + 1, Len(s)) \in Seq(T)
         /\ Len(SubSeq(s, 1, m)) = m /\ \A k \in 1..m : SubSeq(s, 1, m)[k] = s[k]
         /\ s = SubSeq(s, 1, m) \o SubSeq(s, m + 1, Len(s))
<1> DEFINE a == SubSeq(s, 1, m)
           b == SubSeq(s, m + 1, Len(s))
<1>1. m \in Nat /\ Len(s) \in Nat /\ m <= Len(s)
  OBVIOUS
<1>2. a \in Seq(T) /\ Len(a) = m /\ \A k \in 1..m : a[k] = s[k]
  BY <1>1
<1>3. b \in Seq(T) /\ Len(b) = Len(s) - m /\ \A k \in 1..(Len(s) - m) : b[k] = s[k + m]
  BY <1>1
<1> HIDE DEF a, b
<1>4. /\ Len(s) = Len(a) + Len(b)
      /\ \A k \in 1..Len(a) : s[k] = a[k]
      /\ \A k \in 1..Len(b) : s[k + Len(a)] = b[k]
  BY <1>1, <1>2, <1>3
<1>5. s = a \o b
  BY <1>2, <1>3, <1>4, ConcatIs
<1> QED BY <1>2, <1>3, <1>5 DEF a, b

Passed(s) == {k \in DOMAIN s : s[k] \in Forwarded}

LEMMA KnownTyped ==
  ASSUME NEW T, NEW s \in Seq(T)
  PROVE  Known(s) \in Seq(Forwarded)
<1> DEFINE I == Passed(s)
<1>1. DOMAIN s = 1..Len(s) /\ Len(s) \in Nat
  OBVIOUS
<1>2. I \in SUBSET (1..Len(s)) /\ \A k \in I : s[k] \in Forwarded
  BY <1>1 DEF Passed
<1>3. Known(s) = Selected(s, I)
  BY DEF Known, Passed
<1> HIDE DEF I
<1>4. PICK q \in Seq(Nat) : Increasing(q) /\ ToSet(q) = I
  BY <1>1, <1>2, PositionsListed
<1> DEFINE r == Selected(s, I)
<1>5. /\ r \in Seq(T) /\ Len(r) = Len(q)
      /\ \A k \in 1..Len(q) : r[k] = s[q[k]]
  BY <1>2, <1>4, SelectedIs
<1>6. \A k \in 1..Len(q) : q[k] \in I
  BY <1>4, ToSetFacts
<1> HIDE DEF r
<1>7. r \in Seq(Forwarded)
  BY <1>2, <1>5, <1>6
<1> QED BY <1>3, <1>7 DEF r

LEMMA KnownConcat ==
  ASSUME NEW T, NEW s \in Seq(T), NEW t \in Seq(T)
  PROVE  Known(s \o t) = Known(s) \o Known(t)
<1> DEFINE I == Passed(s)
           J == Passed(t)
           u == s \o t
<1>1. /\ Len(s) \in Nat /\ Len(t) \in Nat /\ u \in Seq(T) /\ Len(u) = Len(s) + Len(t)
      /\ \A k \in 1..Len(s) : u[k] = s[k]
      /\ \A k \in 1..Len(t) : u[k + Len(s)] = t[k]
  BY ConcatFacts
<1>2. DOMAIN s = 1..Len(s) /\ DOMAIN t = 1..Len(t) /\ DOMAIN u = 1..(Len(s) + Len(t))
  BY <1>1
<1> HIDE DEF u
<1>3. Passed(u) = I \union Shifted(J, Len(s))
  <2>1. ASSUME NEW k \in Passed(u) PROVE k \in I \union Shifted(J, Len(s))
    <3>1. k \in 1..(Len(s) + Len(t)) /\ u[k] \in Forwarded
      BY <1>2 DEF Passed
    <3>2. CASE k <= Len(s)
      <4>1. k \in 1..Len(s)
        BY <1>1, <3>1, <3>2
      <4> QED BY <1>1, <1>2, <3>1, <4>1 DEF Passed
    <3>3. CASE k > Len(s)
      <4>1. k - Len(s) \in 1..Len(t) /\ (k - Len(s)) + Len(s) = k
        BY <1>1, <3>1, <3>3
      <4>2. k - Len(s) \in J
        BY <1>1, <1>2, <3>1, <4>1 DEF Passed
      <4> HIDE DEF J
      <4> QED BY <4>1, <4>2 DEF Shifted
    <3>4. k <= Len(s) \/ k > Len(s)
      BY <1>1, <3>1
    <3> QED BY <3>2, <3>3, <3>4
  <2>2. ASSUME NEW k \in I PROVE k \in Passed(u)
    <3>1. k \in 1..Len(s) /\ s[k] \in Forwarded
      BY <1>2 DEF Passed
    <3>2. k \in 1..(Len(s) + Len(t))
      BY <1>1, <3>1
    <3> QED BY <1>1, <1>2, <3>1, <3>2 DEF Passed
  <2>3. ASSUME NEW k \in Shifted(J, Len(s)) PROVE k \in Passed(u)
    <3>1. PICK j \in J : k = j + Len(s)
      BY <2>3 DEF Shifted
    <3>2. j \in 1..Len(t) /\ t[j] \in Forwarded
      BY <1>2 DEF Passed
    <3>3. k \in 1..(Len(s) + Len(t)) /\ u[k] = t[j]
      BY <1>1, <3>1, <3>2
    <3> QED BY <1>2, <3>2, <3>3 DEF Passed
  <2> QED BY <2>1, <2>2, <2>3
<1>4. I \in SUBSET (1..Len(s)) /\ J \in SUBSET (1..Len(t))
  BY <1>2 DEF Passed
<1>5. /\ Known(u) = Selected(u, Passed(u))
      /\ Known(s) = Selected(s, I) /\ Known(t) = Selected(t, J)
  BY DEF Known, Passed
<1> HIDE DEF I, J
<1>6. Selected(s \o t, I \union Shifted(J, Len(s))) = Selected(s, I) \o Selected(t, J)
  <2>1. SelectsApart(s, t, I, J)
    BY <1>4, SelectedConcat
  <2> QED BY <2>1 DEF SelectsApart
<1> QED BY <1>3, <1>5, <1>6 DEF u

-----------------------------------------------------------------------------
\* What a chunk decodes to.

LEMMA HalvesOf ==
  ASSUME NEW n \in Nat, NEW m \in Nat, m = 2 * n \/ m = 2 * n - 1
  PROVE  /\ m <= 2 * n /\ 2 * n <= m + 1 /\ (m = 0 <=> n = 0)
         /\ \A k \in 1..n : k \in Nat /\ 2 * k - 1 \in 1..m /\ (k # n => 2 * k \in 1..m)
         /\ \A i \in 1..m : \E k \in 1..n : i = 2 * k \/ i = 2 * k - 1
<1>1. m <= 2 * n /\ 2 * n <= m + 1 /\ (m = 0 <=> n = 0)
  OBVIOUS
<1>2. ASSUME NEW k \in 1..n
      PROVE  k \in Nat /\ 2 * k - 1 \in 1..m /\ (k # n => 2 * k \in 1..m)
  <2>1. k \in Nat /\ 1 <= k /\ k <= n
    OBVIOUS
  <2>2. 2 * k - 1 \in Nat /\ 1 <= 2 * k - 1 /\ 2 * k - 1 <= m
    BY ONLY <1>1, <2>1, n \in Nat, m \in Nat
  <2>3. ASSUME k # n PROVE 2 * k \in Nat /\ 1 <= 2 * k /\ 2 * k <= m
    <3>1. k + 1 <= n
      BY <2>1, <2>3
    <3> QED BY ONLY <1>1, <2>1, <3>1, n \in Nat, m \in Nat
  <2> QED BY <2>1, <2>2, <2>3
<1>3. ASSUME NEW i \in 1..m PROVE \E k \in 1..n : i = 2 * k \/ i = 2 * k - 1
  <2>1. i \in Nat /\ 1 <= i /\ i <= m
    OBVIOUS
  <2>2. PICK k \in Int : i = 2 * k \/ i = 2 * k - 1
    <3> DEFINE j == i \div 2
    <3>1. j \in Int /\ (i = 2 * j \/ i = 2 * j + 1)
      BY <2>1
    <3> HIDE DEF j
    <3>2. i = 2 * j + 1 => i = 2 * (j + 1) - 1
      BY <2>1, <3>1
    <3>3. j + 1 \in Int /\ (i = 2 * j \/ i = 2 * (j + 1) - 1)
      BY <3>1, <3>2
    <3> QED BY ONLY <3>1, <3>3, Zenon
  <2>3. 1 <= k /\ k <= n
    BY ONLY <1>1, <2>1, <2>2, n \in Nat, m \in Nat
  <2> QED BY <2>2, <2>3
<1> QED BY <1>1, <1>2, <1>3

LEMMA CutFacts ==
  ASSUME NEW h \in Seq(Kinds), NEW b, Cut(b, h)
  PROVE  /\ Len(h) \in Nat /\ Len(b) \in Nat /\ DOMAIN b = 1..Len(b)
         /\ Len(b) = 2 * Len(h) \/ Len(b) = 2 * Len(h) - 1
         /\ b = <<>> <=> Len(h) = 0
         /\ \A k \in 1..Len(h) : k \in Nat /\ 2 * k - 1 \in 1..Len(b) /\ b[2 * k - 1] = Half(h[k], 1)
         /\ \A k \in 1..Len(h) : k # Len(h) => 2 * k \in 1..Len(b)
         /\ \A k \in 1..Len(h) : 2 * k <= Len(b) => b[2 * k] = Half(h[k], 2)
         /\ \A i \in 1..Len(b) : \E k \in 1..Len(h) : i = 2 * k \/ i = 2 * k - 1
         /\ \A k \in 1..Len(h) : h[k] \in Kinds
<1> DEFINE n == Len(h)
           m == Len(b)
<1>1. /\ n \in Nat /\ m \in Nat /\ DOMAIN b = 1..m
      /\ b = <<>> <=> m = 0
      /\ \A k \in 1..n : h[k] \in Kinds
  BY DEF Cut
<1>2. m = 2 * n \/ m = 2 * n - 1
  BY DEF Cut
<1>3. \A k \in 1..n : /\ b[2 * k - 1] = Half(h[k], 1)
                      /\ 2 * k <= m => b[2 * k] = Half(h[k], 2)
  BY DEF Cut
<1> HIDE DEF n, m
<1>4. /\ m = 0 <=> n = 0
      /\ \A k \in 1..n : k \in Nat /\ 2 * k - 1 \in 1..m /\ (k # n => 2 * k \in 1..m)
      /\ \A i \in 1..m : \E k \in 1..n : i = 2 * k \/ i = 2 * k - 1
  BY ONLY <1>1, <1>2, HalvesOf
<1>5. /\ b = <<>> <=> n = 0
      /\ \A k \in 1..n : k \in Nat /\ 2 * k - 1 \in 1..m /\ b[2 * k - 1] = Half(h[k], 1)
      /\ \A k \in 1..n : k # n => 2 * k \in 1..m
      /\ \A k \in 1..n : 2 * k <= m => b[2 * k] = Half(h[k], 2)
  BY ONLY <1>1, <1>3, <1>4, Zenon
<1> QED BY <1>1, <1>2, <1>4, <1>5 DEF n, m

\* The halves at which a frame is decoded.
LEMMA MatchedIs ==
  ASSUME NEW h \in Seq(Kinds), NEW b, Cut(b, h)
  PROVE  \A i : i \in Matched(b) <=>
           \E k \in 1..Len(h) : \/ h[k] = "exception" /\ i = 2 * k - 1
                                \/ h[k] # "exception" /\ i = 2 * k /\ 2 * k <= Len(b)
<1>1. /\ Len(h) \in Nat /\ Len(b) \in Nat /\ DOMAIN b = 1..Len(b)
      /\ \A k \in 1..Len(h) : 2 * k - 1 \in 1..Len(b) /\ b[2 * k - 1] = Half(h[k], 1)
      /\ \A k \in 1..Len(h) : 2 * k <= Len(b) => b[2 * k] = Half(h[k], 2)
      /\ \A i \in 1..Len(b) : \E k \in 1..Len(h) : i = 2 * k \/ i = 2 * k - 1
  BY CutFacts
<1>2. ASSUME NEW i \in Matched(b)
      PROVE  \E k \in 1..Len(h) : \/ h[k] = "exception" /\ i = 2 * k - 1
                                  \/ h[k] # "exception" /\ i = 2 * k /\ 2 * k <= Len(b)
  <2>1. i \in 1..Len(b)
    BY <1>1 DEF Matched
  <2>2. IF b[i].kind = "exception" THEN b[i].part = 1 ELSE b[i].part = 2
    BY <1>1 DEF Matched
  <2>3. PICK k \in 1..Len(h) : i = 2 * k \/ i = 2 * k - 1
    BY <1>1, <2>1
  <2>4. CASE i = 2 * k
    <3>1. b[i] = Half(h[k], 2) /\ 2 * k <= Len(b)
      BY <1>1, <2>1, <2>4
    <3>2. b[i].kind = h[k] /\ b[i].part = 2
      BY <3>1 DEF Half
    <3> QED BY <2>2, <2>4, <3>1, <3>2
  <2>5. CASE i = 2 * k - 1
    <3>1. b[i] = Half(h[k], 1)
      BY <1>1, <2>5
    <3>2. b[i].kind = h[k] /\ b[i].part = 1
      BY <3>1 DEF Half
    <3> QED BY <2>2, <2>5, <3>2
  <2> QED BY <2>3, <2>4, <2>5
<1>3. ASSUME NEW k \in 1..Len(h), h[k] = "exception" PROVE 2 * k - 1 \in Matched(b)
  <2>0. b[2 * k - 1] = Half(h[k], 1)
    BY <1>1
  <2>1. b[2 * k - 1].kind = "exception" /\ b[2 * k - 1].part = 1
    BY <1>3, <2>0 DEF Half
  <2> QED BY <1>1, <2>1 DEF Matched
<1>4. ASSUME NEW k \in 1..Len(h), h[k] # "exception", 2 * k <= Len(b) PROVE 2 * k \in Matched(b)
  <2>0. b[2 * k] = Half(h[k], 2)
    BY <1>1, <1>4
  <2>1. b[2 * k].kind # "exception" /\ b[2 * k].part = 2
    BY <1>4, <2>0 DEF Half
  <2>2. 2 * k \in DOMAIN b
    BY <1>1, <1>4
  <2> QED BY <2>1, <2>2 DEF Matched
<1> QED BY <1>2, <1>3, <1>4

LEMMA DecodedIs ==
  ASSUME NEW h \in Seq(Kinds), NEW b, Cut(b, h), b # <<>>
  PROVE  /\ Whole(b, h) \in 0..Len(h)
         /\ Decoded(b) = SubSeq(h, 1, Whole(b, h))
         /\ \A k \in 1..Len(h) : k <= Whole(b, h) <=> h[k] = "exception" \/ 2 * k <= Len(b)
         /\ Whole(b, h) = Len(h) \/ (Whole(b, h) = Len(h) - 1 /\ Len(b) = 2 * Len(h) - 1)
<1> DEFINE e == Whole(b, h)
           Pos(k) == IF h[k] = "exception" THEN 2 * k - 1 ELSE 2 * k
           q == [k \in 1..e |-> IF h[k] = "exception" THEN 2 * k - 1 ELSE 2 * k]
<1>1. /\ Len(h) \in Nat \ {0} /\ Len(b) \in Nat /\ DOMAIN b = 1..Len(b)
      /\ Len(b) = 2 * Len(h) \/ Len(b) = 2 * Len(h) - 1
      /\ \A k \in 1..Len(h) : 2 * k - 1 \in 1..Len(b) /\ b[2 * k - 1] = Half(h[k], 1)
      /\ \A k \in 1..Len(h) : k # Len(h) => 2 * k \in 1..Len(b)
      /\ \A k \in 1..Len(h) : 2 * k <= Len(b) => b[2 * k] = Half(h[k], 2)
      /\ \A k \in 1..Len(h) : h[k] \in Kinds
  BY CutFacts
<1>2. /\ e \in 0..Len(h) /\ e \in Nat /\ e <= Len(h) /\ Len(h) \in 1..Len(h)
      /\ \A k \in 1..e : k \in 1..Len(h) /\ k <= e
      /\ \A k \in 1..Len(h) : k <= e => k \in 1..e
  <2> DEFINE n == Len(h)
  <2>1. n \in Nat \ {0} /\ (e = n \/ e = n - 1)
    BY <1>1 DEF Whole
  <2> HIDE DEF n, e
  <2>2. e \in 0..n /\ e \in Nat /\ e <= n /\ n \in 1..n
    BY ONLY <2>1
  <2>3. /\ \A k \in 1..e : k \in 1..n /\ k <= e
        /\ \A k \in 1..n : k <= e => k \in 1..e
    BY ONLY <2>1, <2>2
  <2> QED BY <2>2, <2>3 DEF n
<1>20. e = Len(h) \/ (e = Len(h) - 1 /\ Len(b) = 2 * Len(h) - 1)
  BY <1>1 DEF Whole
<1>3. \A k \in 1..Len(h) : k <= e <=> h[k] = "exception" \/ 2 * k <= Len(b)
  <2> DEFINE n == Len(h)
             m == Len(b)
             c == h[Len(h)] = "exception"
  <2>1. e = IF m = 2 * n \/ c THEN n ELSE n - 1
    BY DEF Whole
  <2>2. n \in Nat \ {0} /\ m \in Nat /\ (m = 2 * n \/ m = 2 * n - 1)
    BY <1>1
  <2> HIDE DEF n, m, e
  <2>3. ASSUME NEW k \in 1..n PROVE k <= e <=> h[k] = "exception" \/ 2 * k <= m
    <3>1. k \in Nat /\ 1 <= k /\ k <= n
      BY <2>2
    <3>2. CASE k # n
      <4>1. k + 1 <= n
        BY <2>2, <3>1, <3>2
      <4>2. k <= e /\ 2 * k <= m
        BY ONLY <2>1, <2>2, <3>1, <4>1
      <4> QED BY <4>2
    <3>3. CASE k = n
      <4>1. c <=> h[k] = "exception"
        BY <3>3 DEF n
      <4> HIDE DEF c
      <4>2. k <= e <=> (m = 2 * n \/ c)
        BY ONLY <2>1, <2>2, <3>1, <3>3
      <4>3. m = 2 * n <=> 2 * k <= m
        BY ONLY <2>2, <3>1, <3>3
      <4> QED BY ONLY <4>1, <4>2, <4>3
    <3> QED BY <3>2, <3>3
  <2> QED BY <2>3 DEF n, m
<1> HIDE DEF e
<1>4. /\ q \in Seq(Nat) /\ Len(q) = e /\ DOMAIN q = 1..e
      /\ \A k \in 1..e : q[k] = IF h[k] = "exception" THEN 2 * k - 1 ELSE 2 * k
  BY <1>2
<1> HIDE DEF q
<1>5. Increasing(q)
  <2>1. ASSUME NEW i \in 1..Len(q), NEW j \in 1..Len(q), i < j PROVE q[i] < q[j]
    <3>1. i \in 1..e /\ j \in 1..e /\ i \in Nat /\ j \in Nat
      BY <1>2, <1>4
    <3>2. q[i] \in {2 * i - 1, 2 * i} /\ q[j] \in {2 * j - 1, 2 * j}
      BY <1>4, <3>1
    <3> QED BY ONLY <2>1, <3>1, <3>2
  <2> QED BY <2>1, IncreasingMeans
<1>6. ToSet(q) = Matched(b)
  <2>1. ASSUME NEW i \in ToSet(q) PROVE i \in Matched(b)
    <3>1. PICK k \in 1..e : i = q[k]
      BY <1>4 DEF ToSet
    <3>2. k \in 1..Len(h) /\ k <= e
      BY <1>2
    <3>3. h[k] = "exception" => i = 2 * k - 1
      BY <1>4, <3>1
    <3>4. h[k] # "exception" => i = 2 * k /\ 2 * k <= Len(b)
      BY <1>3, <1>4, <3>1, <3>2
    <3> QED BY <3>2, <3>3, <3>4, MatchedIs
  <2>2. ASSUME NEW i \in Matched(b) PROVE i \in ToSet(q)
    <3>1. PICK k \in 1..Len(h) : \/ h[k] = "exception" /\ i = 2 * k - 1
                                 \/ h[k] # "exception" /\ i = 2 * k /\ 2 * k <= Len(b)
      BY MatchedIs
    <3>2. k \in 1..e
      <4>1. k <= e
        BY <1>3, <3>1
      <4> QED BY ONLY <1>2, <4>1, k \in 1..Len(h)
    <3>3. q[k] = i
      BY <1>4, <3>1, <3>2
    <3> QED BY <1>4, <3>2, <3>3 DEF ToSet
  <2> QED BY <2>1, <2>2
<1> DEFINE f == Selected(b, Matched(b))
<1>7. Matched(b) \subseteq 1..Len(b)
  BY <1>1 DEF Matched
<1>8. b \in Seq(HalfFrames)
  BY DEF Cut
<1>9. /\ f \in Seq(HalfFrames) /\ Len(f) = e
      /\ \A k \in 1..e : f[k] = b[q[k]]
  <2>1. /\ Selected(b, ToSet(q)) \in Seq(HalfFrames)
        /\ Len(Selected(b, ToSet(q))) = Len(q)
        /\ \A k \in 1..Len(q) : Selected(b, ToSet(q))[k] = b[q[k]]
    BY <1>4, <1>5, <1>6, <1>7, <1>8, SelectedIs
  <2> QED BY <1>4, <1>6, <2>1
<1> HIDE DEF f
<1>10. ASSUME NEW k \in 1..e PROVE f[k].kind = h[k]
  <2>1. k \in 1..Len(h) /\ k <= e
    BY <1>2
  <2>2. CASE h[k] = "exception"
    <3>1. f[k] = Half(h[k], 1)
      BY <1>1, <1>4, <1>9, <2>1, <2>2
    <3> QED BY <3>1 DEF Half
  <2>3. CASE h[k] # "exception"
    <3>1. f[k] = Half(h[k], 2)
      BY <1>1, <1>3, <1>4, <1>9, <2>1, <2>3
    <3> QED BY <3>1 DEF Half
  <2> QED BY <2>2, <2>3
<1>11. DOMAIN f = 1..e
  BY <1>2, <1>9
<1>12. Decoded(b) = [k \in 1..e |-> h[k]]
  <2>1. Decoded(b) = [k \in DOMAIN f |-> f[k].kind]
    BY DEF Decoded, f
  <2> QED BY <1>10, <1>11, <2>1
<1>13. SubSeq(h, 1, e) = [k \in 1..e |-> h[k]]
  <2>1. /\ SubSeq(h, 1, e) \in Seq(Kinds) /\ Len(SubSeq(h, 1, e)) = e
        /\ \A k \in 1..e : SubSeq(h, 1, e)[k] = h[k]
    BY <1>2, SplitAt
  <2>2. DOMAIN SubSeq(h, 1, e) = 1..e
    BY <2>1
  <2> QED BY <2>1, <2>2
<1> QED BY <1>2, <1>3, <1>20, <1>12, <1>13 DEF e

LEMMA OneAt ==
  ASSUME NEW T, NEW s \in Seq(T), NEW i \in 1..Len(s)
  PROVE  SubSeq(s, i, i) = <<s[i]>>
<1> DEFINE u == SubSeq(s, i, i)
           x == s[i]
<1>1. i \in Int /\ \A j \in i..i : s[j] \in T
  OBVIOUS
<1>2. /\ u \in Seq(T) /\ Len(u) = (IF i <= i THEN i - i + 1 ELSE 0)
      /\ \A j \in 1..(i - i + 1) : u[j] = s[i + j - 1]
  BY ONLY <1>1, SubSeqProperties
<1>3. i - i + 1 = 1 /\ i + 1 - 1 = i /\ 1 \in 1..1 /\ x \in T
  OBVIOUS
<1> HIDE DEF u
<1>4. u \in Seq(T) /\ Len(u) = 1 /\ u[1] = x
  <2>1. (IF i <= i THEN i - i + 1 ELSE 0) = 1 /\ 1 \in 1..(i - i + 1)
    BY <1>1
  <2>2. u[1] = s[i + 1 - 1]
    BY ONLY <1>2, <2>1
  <2> QED BY ONLY <1>2, <1>3, <2>1, <2>2
<1> HIDE DEF x
<1>5. u = <<x>>
  BY <1>3, <1>4
<1> QED BY <1>5 DEF u, x

LEMMA OneHalf ==
  ASSUME NEW x \in HalfFrames, NEW k, x = Half(k, 1)
  PROVE  Cut(<<x>>, <<k>>) /\ Len(<<x>>) <= 1
<1>1. <<x>> \in Seq(HalfFrames) /\ Len(<<x>>) = 1 /\ Len(<<k>>) = 1
  OBVIOUS
<1>2. \A j \in 1..1 : j = 1
  OBVIOUS
<1>3. <<x>>[2 * 1 - 1] = x /\ <<k>>[1] = k /\ ~ (2 * 1 <= 1)
  OBVIOUS
<1>4. 1 \in {2 * 1, 2 * 1 - 1}
  OBVIOUS
<1> HIDE DEF Half
<1> QED BY <1>1, <1>2, <1>3, <1>4 DEF Cut

\* A chunk without a fatal frame: its frames are passed on, and at most the first half
\* of one is kept.
LEMMA ChunkPasses ==
  ASSUME NEW h \in Seq(Kinds), NEW b, Cut(b, h), b # <<>>, Fatal(Decoded(b)) = {}
  PROVE  \E g \in Seq(Kinds), rest \in Seq(Kinds) :
           /\ h = g \o rest /\ Yielded(Decoded(b)) = Known(g)
           /\ Cut(Kept(b), rest) /\ Len(Kept(b)) <= 1
<1> DEFINE e == Whole(b, h)
           n == Len(h)
           m == Len(b)
           g == SubSeq(h, 1, e)
           rest == SubSeq(h, e + 1, n)
<1>1. /\ n \in Nat \ {0} /\ m \in Nat /\ DOMAIN b = 1..m
      /\ m = 2 * n \/ m = 2 * n - 1
      /\ \A k \in 1..n : b[2 * k - 1] = Half(h[k], 1)
  BY CutFacts
<1>2. /\ e \in 0..n /\ Decoded(b) = g
      /\ \A k \in 1..n : k <= e <=> h[k] = "exception" \/ 2 * k <= m
      /\ e = n \/ (e = n - 1 /\ m = 2 * n - 1)
  BY DecodedIs
<1>3. b \in Seq(HalfFrames)
  BY DEF Cut
<1>4. /\ g \in Seq(Kinds) /\ rest \in Seq(Kinds) /\ Len(g) = e /\ h = g \o rest
      /\ \A k \in 1..e : g[k] = h[k]
  BY <1>2, SplitAt
<1> HIDE DEF e, n, m, g, rest
<1>5. e \in Nat /\ e <= n
  BY <1>1, <1>2
<1>6. \A k \in 1..n : k <= e => h[k] # "exception"
  <2> SUFFICES ASSUME NEW k \in 1..n, k <= e PROVE h[k] # "exception"
    OBVIOUS
  <2>1. k \in 1..e /\ DOMAIN g = 1..e
    BY ONLY <1>1, <1>4, <1>5, k \in 1..n, k <= e
  <2>2. k \notin Fatal(g)
    BY <1>2
  <2> QED BY <1>4, <2>1, <2>2 DEF Fatal
<1>7. Yielded(Decoded(b)) = Known(g)
  <2>1. SubSeq(g, 1, Len(g)) = g
    BY <1>4, SubSeqFull
  <2> QED BY <1>2, <2>1 DEF Yielded
<1>8. \A i : i \in Matched(b) <=> \E k \in 1..n : k <= e /\ i = 2 * k
  <2>1. \A i : i \in Matched(b) <=>
           \E k \in 1..n : \/ h[k] = "exception" /\ i = 2 * k - 1
                           \/ h[k] # "exception" /\ i = 2 * k /\ 2 * k <= m
    BY MatchedIs DEF n, m
  <2> QED BY ONLY <2>1, <1>2, <1>6, Zenon
<1>9. Kept(b) = SubSeq(b, 2 * e + 1, m)
  <2> DEFINE M == Matched(b)
             last == IF M = {} THEN 0 ELSE CHOOSE i \in M : \A j \in M : j <= i
  <2>1. Kept(b) = SubSeq(b, last + 1, m)
    BY DEF Kept, m
  <2>2. CASE e = 0
    <3>1. \A k \in 1..n : ~ (k <= e)
      BY <1>1, <2>2
    <3>2. M = {}
      BY <1>8, <3>1
    <3>3. last = 0
      BY <3>2
    <3> HIDE DEF last
    <3>4. 2 * e + 1 = last + 1
      BY ONLY <2>2, <3>3
    <3> QED BY ONLY <2>1, <3>4
  <2>3. CASE e # 0
    <3>1. e \in 1..n
      BY <1>1, <1>5, <2>3
    <3>2. 2 * e \in M
      BY <1>5, <1>8, <3>1
    <3>3. \A j \in M : j \in Nat /\ j <= 2 * e
      <4> TAKE j \in M
      <4>1. PICK k \in 1..n : k <= e /\ j = 2 * k
        BY <1>8
      <4>2. k \in Nat
        BY <1>1
      <4> QED BY ONLY <1>5, <4>1, <4>2
    <3> HIDE DEF M
    <3>4. last = 2 * e
      <4>1. M # {} /\ last \in M /\ \A j \in M : j <= last
        BY <3>2, <3>3
      <4> HIDE DEF last
      <4>2. last \in Nat /\ last <= 2 * e /\ 2 * e <= last
        BY <3>2, <3>3, <4>1
      <4> QED BY ONLY <1>5, <4>2
    <3> QED BY ONLY <2>1, <3>4
  <2> QED BY <2>2, <2>3
<1>10. CASE e = n
  <2>1. n \in 1..n
    BY <1>1
  <2>2. m = 2 * n
    <3>1. 2 * n <= m
      BY <1>2, <1>5, <1>6, <1>10, <2>1
    <3> QED BY ONLY <1>1, <3>1
  <2>3. Kept(b) = <<>>
    <3>1. m < 2 * e + 1 /\ 2 * e + 1 \in Int /\ m \in Int
      BY ONLY <1>1, <1>10, <2>2
    <3>2. SubSeq(b, 2 * e + 1, m) = <<>>
      BY ONLY <3>1, SubSeqEmpty
    <3> QED BY <1>9, <3>2
  <2>4. rest = <<>>
    <3>1. n < e + 1 /\ e + 1 \in Int /\ n \in Int
      BY ONLY <1>1, <1>10
    <3>2. SubSeq(h, e + 1, n) = <<>>
      BY ONLY <3>1, SubSeqEmpty
    <3> QED BY <3>2 DEF rest
  <2>5. Cut(<<>>, <<>>) /\ Len(<<>>) <= 1
    BY EmptyFacts DEF Cut
  <2> QED BY <1>4, <1>7, <2>3, <2>4, <2>5
<1>11. CASE e = n - 1 /\ m = 2 * n - 1
  <2>1. n \in 1..n /\ 2 * n - 1 \in 1..m /\ 2 * e + 1 = m /\ e + 1 = n /\ m \in 1..m
    BY ONLY <1>1, <1>11
  <2>2. Kept(b) = <<b[m]>>
    <3>1. SubSeq(b, m, m) = <<b[m]>>
      BY ONLY <1>3, <2>1, OneAt DEF m
    <3> QED BY <1>9, <2>1, <3>1
  <2>3. rest = <<h[n]>>
    <3>1. SubSeq(h, n, n) = <<h[n]>>
      BY ONLY h \in Seq(Kinds), <2>1, OneAt DEF n
    <3> QED BY <2>1, <3>1 DEF rest
  <2>4. b[m] = Half(h[n], 1) /\ b[m] \in HalfFrames
    BY <1>1, <1>3, <1>11, <2>1 DEF m
  <2>5. Cut(<<b[m]>>, <<h[n]>>) /\ Len(<<b[m]>>) <= 1
    BY <2>4, OneHalf
  <2> QED BY <1>4, <1>7, <2>2, <2>3, <2>5
<1> QED BY <1>2, <1>10, <1>11

Deadly == {"exception", "shapeless"}

\* A chunk with one: what is before it is passed on, and then an error.
LEMMA ChunkFails ==
  ASSUME NEW h \in Seq(Kinds), NEW b, Cut(b, h), b # <<>>, Fatal(Decoded(b)) # {}
  PROVE  /\ \E g \in Seq(Kinds), rest \in Seq(Kinds) :
              h = g \o rest /\ Yielded(Decoded(b)) = Append(Known(g), "error")
         /\ \E k \in 1..Len(h) : h[k] \in Deadly
<1> DEFINE d == Decoded(b)
           e == Len(d)
           F == Fatal(d)
           u == CHOOSE k \in F : \A j \in F : k <= j
           g == SubSeq(d, 1, u - 1)
           mid == SubSeq(d, u, e)
           tail == SubSeq(h, Whole(b, h) + 1, Len(h))
<1>1. /\ d \in Seq(Kinds) /\ tail \in Seq(Kinds) /\ h = d \o tail
      /\ \A k \in 1..e : k \in 1..Len(h) /\ d[k] = h[k]
  <2>1. Whole(b, h) \in 0..Len(h) /\ d = SubSeq(h, 1, Whole(b, h))
    BY DecodedIs
  <2>2. /\ SubSeq(h, 1, Whole(b, h)) \in Seq(Kinds) /\ tail \in Seq(Kinds)
        /\ h = SubSeq(h, 1, Whole(b, h)) \o tail
    BY <2>1, SplitAt
  <2> HIDE DEF d, tail
  <2>3. d \in Seq(Kinds) /\ tail \in Seq(Kinds) /\ h = d \o tail
    BY <2>1, <2>2
  <2>4. /\ Len(d) \in Nat /\ Len(tail) \in Nat /\ Len(h) = Len(d) + Len(tail)
        /\ \A k \in 1..Len(d) : h[k] = d[k]
    BY <2>3, ConcatFacts
  <2>5. \A k \in 1..Len(d) : k \in 1..Len(h)
    BY <2>4
  <2> QED BY <2>3, <2>4, <2>5
<1> HIDE DEF d, tail
<1>2. e \in Nat /\ DOMAIN d = 1..e
  BY <1>1
<1>3. F \in SUBSET Nat /\ F # {} /\ F \subseteq 1..e /\ \A k \in F : d[k] \in Deadly
  BY <1>2 DEF Fatal, Deadly, d
<1> HIDE DEF F
<1>4. u \in F
  BY <1>3, LeastNumber
<1>5. u \in 1..e /\ d[u] \in Deadly /\ u - 1 \in 0..e /\ (u - 1) + 1 = u
  <2> HIDE DEF u
  <2>1. u \in 1..e /\ d[u] \in Deadly
    BY <1>3, <1>4
  <2> HIDE DEF e
  <2>2. u \in Nat /\ 1 <= u /\ u <= e
    BY <1>2, <2>1
  <2>3. u - 1 \in 0..e /\ (u - 1) + 1 = u
    BY ONLY <1>2, <2>2
  <2> QED BY <2>1, <2>3
<1>6. /\ g \in Seq(Kinds) /\ mid \in Seq(Kinds) /\ d = g \o mid
  <2>1. /\ SubSeq(d, 1, u - 1) \in Seq(Kinds) /\ SubSeq(d, (u - 1) + 1, Len(d)) \in Seq(Kinds)
        /\ d = SubSeq(d, 1, u - 1) \o SubSeq(d, (u - 1) + 1, Len(d))
    <3> HIDE DEF u
    <3> QED BY ONLY <1>1, <1>5, SplitAt
  <2> QED BY <1>5, <2>1
<1>7. Yielded(d) = Append(Known(g), "error")
  BY <1>3 DEF Yielded, F
<1> HIDE DEF g, mid, u
<1>8. h = g \o (mid \o tail) /\ mid \o tail \in Seq(Kinds)
  <2>1. (g \o mid) \o tail = g \o (mid \o tail)
    BY <1>1, <1>6, ConcatAssociative
  <2> QED BY <1>1, <1>6, <2>1, ConcatFacts
<1>9. u \in 1..Len(h) /\ h[u] \in Deadly
  BY <1>1, <1>5
<1> QED BY <1>6, <1>7, <1>8, <1>9 DEF d

\* The upstream begins the next frame, or sends the second half of the last.
LEMMA FrameBegins ==
  ASSUME NEW h \in Seq(Kinds), NEW b, Cut(b, h), b # <<>> => b[Len(b)].part = 2,
         NEW k \in Kinds
  PROVE  Cut(Append(b, Half(k, 1)), Append(h, k))
<1> DEFINE n == Len(h)
           m == Len(b)
           x == Half(k, 1)
           c == Append(b, x)
           t == Append(h, k)
<1>1. /\ n \in Nat /\ m \in Nat /\ (m = 2 * n \/ m = 2 * n - 1) /\ (b = <<>> <=> n = 0)
      /\ \A i \in 1..n : i \in Nat /\ 2 * i - 1 \in 1..m /\ b[2 * i - 1] = Half(h[i], 1)
      /\ \A i \in 1..n : 2 * i <= m => b[2 * i] = Half(h[i], 2)
  BY CutFacts
<1>2. b \in Seq(HalfFrames) /\ x \in HalfFrames
  BY DEF Cut, HalfFrames, Half
<1>3. /\ c \in Seq(HalfFrames) /\ Len(c) = m + 1 /\ c[m + 1] = x
      /\ \A i \in 1..m : c[i] = b[i]
  <2> HIDE DEF x
  <2> QED BY <1>2
<1>4. Len(t) = n + 1 /\ t[n + 1] = k /\ \A i \in 1..n : t[i] = h[i]
  OBVIOUS
<1> HIDE DEF c, t
<1>5. m = 2 * n
  <2> SUFFICES ASSUME m # 2 * n PROVE FALSE
    OBVIOUS
  <2>1. n # 0 /\ m = 2 * n - 1 /\ n \in 1..n
    <3> HIDE DEF n, m
    <3> QED BY ONLY <1>1, m # 2 * n
  <2>2. b[m] = Half(h[n], 1) /\ b # <<>>
    <3>1. b[2 * n - 1] = Half(h[n], 1) /\ b # <<>>
      BY <1>1, <2>1
    <3> HIDE DEF n, m
    <3> QED BY ONLY <2>1, <3>1
  <2>3. b[m].part = 1
    <3> HIDE DEF n, m
    <3> QED BY ONLY <2>2 DEF Half
  <2> QED BY <2>2, <2>3
<1> HIDE DEF n, m
<1>6. ASSUME NEW i \in 1..(n + 1)
      PROVE  /\ c[2 * i - 1] = Half(t[i], 1)
             /\ 2 * i <= m + 1 => c[2 * i] = Half(t[i], 2)
  <2>1. CASE i = n + 1
    <3>1. 2 * i - 1 = m + 1 /\ ~ (2 * i <= m + 1)
      BY ONLY <1>1, <1>5, <2>1
    <3> QED BY ONLY <1>3, <1>4, <2>1, <3>1 DEF x
  <2>2. CASE i # n + 1
    <3>1. i \in 1..n
      BY <1>1, <2>2
    <3>2. 2 * i - 1 \in 1..m /\ i \in Nat
      BY <1>1, <3>1
    <3>3. 2 * i <= m + 1 => 2 * i <= m /\ 2 * i \in 1..m
      BY ONLY <1>1, <1>5, <3>2
    <3>4. t[i] = h[i] /\ c[2 * i - 1] = b[2 * i - 1]
      BY <1>3, <1>4, <3>1, <3>2
    <3>5. 2 * i <= m + 1 => c[2 * i] = b[2 * i]
      BY <1>3, <3>3
    <3> QED BY ONLY <1>1, <3>1, <3>3, <3>4, <3>5
  <2> QED BY <2>1, <2>2
<1>7. m + 1 = 2 * (n + 1) - 1
  BY ONLY <1>1, <1>5
<1>8. Cut(c, t)
  BY <1>3, <1>4, <1>6, <1>7 DEF Cut
<1> QED BY <1>8 DEF c, t

LEMMA FrameEnds ==
  ASSUME NEW h \in Seq(Kinds), NEW b, Cut(b, h), b # <<>>, b[Len(b)].part = 1
  PROVE  Cut(Append(b, Half(b[Len(b)].kind, 2)), h)
<1> DEFINE n == Len(h)
           m == Len(b)
           x == Half(b[m].kind, 2)
           c == Append(b, x)
<1>1. /\ n \in Nat /\ m \in Nat /\ (m = 2 * n \/ m = 2 * n - 1) /\ (b = <<>> <=> n = 0)
      /\ \A i \in 1..n : i \in Nat /\ 2 * i - 1 \in 1..m /\ b[2 * i - 1] = Half(h[i], 1)
      /\ \A i \in 1..n : 2 * i <= m => b[2 * i] = Half(h[i], 2)
      /\ \A i \in 1..n : h[i] \in Kinds
  BY ONLY h \in Seq(Kinds), Cut(b, h), CutFacts
<1>2. n # 0 /\ b[m].part = 1
  BY <1>1
<1>3. b \in Seq(HalfFrames)
  BY DEF Cut
<1> HIDE DEF n, m
<1>4. n \in 1..n /\ n \in Nat
  BY <1>1, <1>2
<1>5. m = 2 * n - 1
  <2> SUFFICES ASSUME m = 2 * n PROVE FALSE
    BY <1>1
  <2>1. b[m] = Half(h[n], 2)
    <3>1. 2 * n <= m
      BY ONLY <1>1, m = 2 * n
    <3> QED BY <1>1, <1>4, <3>1
  <2> QED BY ONLY <1>2, <2>1 DEF Half
<1>6. b[m] = Half(h[n], 1)
  BY <1>1, <1>4, <1>5
<1>7. x = Half(h[n], 2) /\ x \in HalfFrames
  <2>1. b[m].kind = h[n] /\ h[n] \in Kinds
    BY <1>1, <1>4, <1>6 DEF Half
  <2> QED BY ONLY <2>1 DEF Half, HalfFrames
<1>8. /\ c \in Seq(HalfFrames) /\ Len(c) = m + 1 /\ c[m + 1] = x
      /\ \A i \in 1..m : c[i] = b[i]
  <2> HIDE DEF x
  <2> QED BY <1>3, <1>7 DEF m
<1> HIDE DEF c, x
<1>9. ASSUME NEW i \in 1..n
      PROVE  /\ c[2 * i - 1] = Half(h[i], 1)
             /\ 2 * i <= m + 1 => c[2 * i] = Half(h[i], 2)
  <2>1. 2 * i - 1 \in 1..m /\ i \in Nat /\ b[2 * i - 1] = Half(h[i], 1)
    BY <1>1
  <2>2. c[2 * i - 1] = Half(h[i], 1)
    BY <1>8, <2>1
  <2>3. CASE i = n
    <3>1. 2 * i = m + 1
      BY ONLY <1>1, <1>5, <2>3
    <3> QED BY ONLY <1>7, <1>8, <2>2, <2>3, <3>1
  <2>4. CASE i # n
    <3>1. i + 1 <= n
      BY <1>1, <2>4
    <3>2. 2 * i <= m /\ 2 * i \in 1..m
      BY ONLY <1>1, <1>5, <2>1, <3>1
    <3> QED BY <1>1, <1>8, <2>2, <3>2
  <2> QED BY <2>3, <2>4
<1>10. m + 1 = 2 * n
  BY ONLY <1>1, <1>5
<1>11. Cut(c, h)
  BY <1>8, <1>9, <1>10 DEF Cut, n
<1> QED BY <1>11 DEF c, x, m

-----------------------------------------------------------------------------
\* The inductive invariant.

\* Of what was begun, t, some frames are passed on, f, and the halves of the rest are in b.
Underway(t, b, f) ==
  \E g \in Seq(Kinds), h \in Seq(Kinds) : t = g \o h /\ f = Known(g) /\ Cut(b, h)

\* Or an error has ended it, for a reason.
GivenUp(t, f, end) ==
  /\ \E g \in Seq(Kinds), h \in Seq(Kinds) : t = g \o h /\ f = Append(Known(g), "error")
  /\ end = "broken" \/ \E k \in 1..Len(t) : t[k] \in Deadly

\* A stream that has ended well has been read to its end.
ReadOut(r) == flow[r] = "ended" /\ kind[r] = "native" => eof[r] = "clean" /\ wire[r] = <<>>

RelayPlace(r) ==
  \/ /\ wire[r] \in Seq(HalfFrames) /\ buf[r] \in Seq(HalfFrames) /\ Len(buf[r]) <= 1
     /\ Underway(told[r], buf[r] \o wire[r], frames[r])
     /\ ReadOut(r)
  \/ GivenUp(told[r], frames[r], eof[r]) /\ flow[r] \in {"ended", "broken"}

RelayInv ==
  /\ kind \in Mixes
  /\ DOMAIN told = Streams /\ DOMAIN wire = Streams /\ DOMAIN buf = Streams
  /\ DOMAIN frames = Streams /\ DOMAIN eof = Streams
  /\ \A r \in Streams : RelayPlace(r)

-----------------------------------------------------------------------------
\* The last half sent is the last of what is kept and what is under way.
LEMMA LastOfAll ==
  ASSUME NEW r, wire[r] \in Seq(HalfFrames), buf[r] \in Seq(HalfFrames)
  PROVE  /\ buf[r] \o wire[r] = <<>> => LastHalf(r) = Half("none", 2)
         /\ buf[r] \o wire[r] # <<>> => LastHalf(r) = (buf[r] \o wire[r])[Len(buf[r] \o wire[r])]
<1> DEFINE w == wire[r]
           b == buf[r]
           c == b \o w
<1>0. w \in Seq(HalfFrames) /\ b \in Seq(HalfFrames)
  OBVIOUS
<1>4. LastHalf(r) = IF w # <<>> THEN w[Len(w)] ELSE IF b # <<>> THEN b[Len(b)] ELSE Half("none", 2)
  BY DEF LastHalf
<1> HIDE DEF w, b
<1>1. /\ Len(b) \in Nat /\ Len(w) \in Nat /\ c \in Seq(HalfFrames) /\ Len(c) = Len(b) + Len(w)
      /\ \A k \in 1..Len(b) : c[k] = b[k]
      /\ \A k \in 1..Len(w) : c[k + Len(b)] = w[k]
  BY ONLY <1>0, ConcatFacts
<1>2. /\ w = <<>> <=> Len(w) = 0
      /\ b = <<>> <=> Len(b) = 0
  BY <1>0, EmptyFacts
<1>3. c = <<>> <=> Len(c) = 0
  BY <1>1, EmptyFacts
<1> HIDE DEF c
<1>5. CASE Len(w) # 0
  <2>1. Len(w) \in 1..Len(w) /\ Len(w) + Len(b) = Len(c) /\ Len(c) # 0
    BY <1>1, <1>5
  <2>2. c[Len(c)] = w[Len(w)]
    BY <1>1, <2>1
  <2> QED BY <1>2, <1>3, <1>4, <1>5, <2>1, <2>2 DEF c, w, b
<1>6. CASE Len(w) = 0 /\ Len(b) # 0
  <2>1. Len(b) \in 1..Len(b) /\ Len(b) = Len(c) /\ Len(c) # 0
    BY <1>1, <1>6
  <2>2. c[Len(c)] = b[Len(b)]
    BY <1>1, <2>1
  <2> QED BY <1>2, <1>3, <1>4, <1>6, <2>1, <2>2 DEF c, w, b
<1>7. CASE Len(w) = 0 /\ Len(b) = 0
  <2>1. Len(c) = 0
    BY <1>1, <1>7
  <2> QED BY <1>2, <1>3, <1>4, <1>7, <2>1 DEF c, w, b
<1> QED BY <1>5, <1>6, <1>7

LEMMA ConcatAppend ==
  ASSUME NEW T, NEW s \in Seq(T), NEW t \in Seq(T), NEW e \in T
  PROVE  /\ s \o Append(t, e) = Append(s \o t, e)
         /\ Append(t, e) \in Seq(T)
<1>1. <<e>> \in Seq(T) /\ Append(t, e) = t \o <<e>>
  OBVIOUS
<1>2. s \o t \in Seq(T)
  OBVIOUS
<1>3. Append(s \o t, e) = (s \o t) \o <<e>>
  BY <1>2
<1>4. (s \o t) \o <<e>> = s \o (t \o <<e>>)
  BY <1>1, ConcatAssociative
<1> QED BY <1>1, <1>3, <1>4

LEMMA SendKeeps ==
  ASSUME NEW r \in Streams, RelayInv, SendHalf(r),
         wire[r] \in Seq(HalfFrames), buf[r] \in Seq(HalfFrames),
         Underway(told[r], buf[r] \o wire[r], frames[r])
  PROVE  /\ wire'[r] \in Seq(HalfFrames)
         /\ Underway(told'[r], buf[r] \o wire'[r], frames[r])
<1> DEFINE w == wire[r]
           b == buf[r]
           c == b \o w
           l == LastHalf(r)
<1>1. PICK g \in Seq(Kinds), h \in Seq(Kinds) :
        told[r] = g \o h /\ frames[r] = Known(g) /\ Cut(c, h)
  BY DEF Underway
<1>2. /\ c = <<>> => l = Half("none", 2)
      /\ c # <<>> => l = c[Len(c)]
  BY LastOfAll
<1>3. w \in Seq(HalfFrames) /\ b \in Seq(HalfFrames) /\ DOMAIN wire = Streams /\ DOMAIN told = Streams
  BY DEF RelayInv
<1>4. c \in Seq(HalfFrames)
  BY <1>3, ConcatFacts
<1>5. \/ /\ l.part = 2
         /\ \E k \in Kinds : /\ told' = [told EXCEPT ![r] = Append(@, k)]
                             /\ wire' = [wire EXCEPT ![r] = Append(@, Half(k, 1))]
      \/ /\ l.part = 1 /\ told' = told
         /\ wire' = [wire EXCEPT ![r] = Append(@, Half(l.kind, 2))]
  BY DEF SendHalf
<1> HIDE DEF c, l
<1>6. ASSUME NEW k \in Kinds, l.part = 2,
             told' = [told EXCEPT ![r] = Append(@, k)],
             wire' = [wire EXCEPT ![r] = Append(@, Half(k, 1))]
      PROVE  /\ wire'[r] \in Seq(HalfFrames)
             /\ Underway(told'[r], b \o wire'[r], frames[r])
  <2>1. told'[r] = Append(told[r], k) /\ wire'[r] = Append(w, Half(k, 1))
    BY <1>3, <1>6
  <2>2. Half(k, 1) \in HalfFrames
    BY DEF Half, HalfFrames
  <2>3. b \o wire'[r] = Append(c, Half(k, 1)) /\ wire'[r] \in Seq(HalfFrames)
    <3>1. /\ b \o Append(w, Half(k, 1)) = Append(b \o w, Half(k, 1))
          /\ Append(w, Half(k, 1)) \in Seq(HalfFrames)
      BY ONLY <1>3, <2>2, ConcatAppend
    <3> QED BY <2>1, <3>1 DEF c
  <2>4. Cut(Append(c, Half(k, 1)), Append(h, k))
    <3>1. c # <<>> => c[Len(c)].part = 2
      BY <1>2, <1>6
    <3> QED BY ONLY <1>1, <3>1, k \in Kinds, h \in Seq(Kinds), FrameBegins
  <2>5. told'[r] = g \o Append(h, k) /\ Append(h, k) \in Seq(Kinds)
    <3>1. g \o Append(h, k) = Append(g \o h, k) /\ Append(h, k) \in Seq(Kinds)
      BY ONLY g \in Seq(Kinds), h \in Seq(Kinds), k \in Kinds, ConcatAppend
    <3> QED BY <1>1, <2>1, <3>1
  <2> QED BY <1>1, <2>3, <2>4, <2>5 DEF Underway
<1>7. ASSUME l.part = 1, told' = told,
             wire' = [wire EXCEPT ![r] = Append(@, Half(l.kind, 2))]
      PROVE  /\ wire'[r] \in Seq(HalfFrames)
             /\ Underway(told'[r], b \o wire'[r], frames[r])
  <2>0. c # <<>>
    <3>1. Half("none", 2).part = 2
      BY DEF Half
    <3> QED BY <1>2, <1>7, <3>1
  <2>1. l = c[Len(c)] /\ l \in HalfFrames
    BY <1>2, <1>4, <2>0
  <2>2. Half(l.kind, 2) \in HalfFrames
    BY <2>1 DEF Half, HalfFrames
  <2>3. wire'[r] = Append(w, Half(l.kind, 2))
    BY <1>3, <1>7
  <2>4. b \o wire'[r] = Append(c, Half(l.kind, 2)) /\ wire'[r] \in Seq(HalfFrames)
    <3>1. /\ b \o Append(w, Half(l.kind, 2)) = Append(b \o w, Half(l.kind, 2))
          /\ Append(w, Half(l.kind, 2)) \in Seq(HalfFrames)
      BY ONLY <1>3, <2>2, ConcatAppend
    <3> QED BY <2>3, <3>1 DEF c
  <2>5. Cut(Append(c, Half(c[Len(c)].kind, 2)), h)
    <3>1. c[Len(c)].part = 1
      BY <1>7, <2>1
    <3> QED BY ONLY <1>1, <2>0, <3>1, h \in Seq(Kinds), FrameEnds
  <2>6. Cut(b \o wire'[r], h)
    BY <2>1, <2>4, <2>5
  <2> QED BY <1>1, <1>7, <2>4, <2>6 DEF Underway
<1> QED BY <1>5, <1>6, <1>7

Frames == Forwarded \union {"error"}

LEMMA KnownFrames ==
  ASSUME NEW s \in Seq(Kinds)
  PROVE  Known(s) \in Seq(Frames)
<1>1. Known(s) \in Seq(Forwarded) /\ Forwarded \subseteq Frames
  BY KnownTyped DEF Frames
<1> QED BY <1>1, SeqMonotonic

LEMMA ChunkKeeps ==
  ASSUME NEW r \in Streams, RelayInv, Chunk(r),
         wire[r] \in Seq(HalfFrames), buf[r] \in Seq(HalfFrames),
         Underway(told[r], buf[r] \o wire[r], frames[r])
  PROVE  /\ ~EndedBy(r) =>
              /\ wire'[r] = <<>> /\ buf'[r] \in Seq(HalfFrames) /\ Len(buf'[r]) <= 1
              /\ Underway(told[r], buf'[r] \o wire'[r], frames'[r])
         /\ EndedBy(r) => GivenUp(told[r], frames'[r], eof[r])
<1> DEFINE b == buf[r] \o wire[r]
<1>1. PICK g \in Seq(Kinds), h \in Seq(Kinds) :
        told[r] = g \o h /\ frames[r] = Known(g) /\ Cut(b, h)
  BY DEF Underway
<1>2. /\ wire'[r] = <<>> /\ buf'[r] = Kept(b)
      /\ frames'[r] = Known(g) \o Yielded(Decoded(b))
  BY <1>1 DEF Chunk, RelayInv
<1>3. b # <<>>
  <2>1. wire[r] # <<>>
    BY DEF Chunk
  <2> QED BY <2>1, ConcatEqualIffEmpty
<1>4. EndedBy(r) <=> Fatal(Decoded(b)) # {}
  BY DEF EndedBy
<1> HIDE DEF b
<1>5. ASSUME Fatal(Decoded(b)) = {}
      PROVE  /\ wire'[r] = <<>> /\ buf'[r] \in Seq(HalfFrames) /\ Len(buf'[r]) <= 1
             /\ Underway(told[r], buf'[r] \o wire'[r], frames'[r])
  <2>1. PICK x \in Seq(Kinds), rest \in Seq(Kinds) :
          /\ h = x \o rest /\ Yielded(Decoded(b)) = Known(x)
          /\ Cut(Kept(b), rest) /\ Len(Kept(b)) <= 1
    BY <1>1, <1>3, <1>5, ChunkPasses
  <2>2. Kept(b) \in Seq(HalfFrames)
    BY <2>1 DEF Cut
  <2>3. Kept(b) \o <<>> = Kept(b)
    BY <2>2, ConcatEmptySeq
  <2>4. told[r] = (g \o x) \o rest /\ g \o x \in Seq(Kinds)
    <3>1. (g \o x) \o rest = g \o (x \o rest)
      BY ConcatAssociative
    <3> QED BY <1>1, <2>1, <3>1, ConcatFacts
  <2>5. frames'[r] = Known(g \o x)
    BY <1>2, <2>1, KnownConcat
  <2> QED BY <1>2, <2>1, <2>2, <2>3, <2>4, <2>5 DEF Underway
<1>6. ASSUME Fatal(Decoded(b)) # {}
      PROVE  GivenUp(told[r], frames'[r], eof[r])
  <2>1. PICK x \in Seq(Kinds), rest \in Seq(Kinds) :
          h = x \o rest /\ Yielded(Decoded(b)) = Append(Known(x), "error")
    BY <1>1, <1>3, <1>6, ChunkFails
  <2>2. told[r] = (g \o x) \o rest /\ g \o x \in Seq(Kinds)
    <3>1. (g \o x) \o rest = g \o (x \o rest)
      BY ConcatAssociative
    <3> QED BY <1>1, <2>1, <3>1, ConcatFacts
  <2>3. frames'[r] = Append(Known(g \o x), "error")
    <3>1. Known(g) \in Seq(Frames) /\ Known(x) \in Seq(Frames) /\ "error" \in Frames
      BY KnownFrames DEF Frames
    <3>2. Known(g) \o Append(Known(x), "error") = Append(Known(g) \o Known(x), "error")
      BY <3>1, ConcatAppend
    <3>3. Known(g \o x) = Known(g) \o Known(x)
      BY KnownConcat
    <3> QED BY <1>2, <2>1, <3>2, <3>3
  <2>4. \E k \in 1..Len(told[r]) : told[r][k] \in Deadly
    <3>1. PICK k \in 1..Len(h) : h[k] \in Deadly
      BY <1>1, <1>3, <1>6, ChunkFails
    <3>2. /\ Len(g) \in Nat /\ Len(h) \in Nat /\ Len(g \o h) = Len(g) + Len(h)
          /\ (g \o h)[k + Len(g)] = h[k]
      BY ConcatFacts
    <3>3. k + Len(g) \in 1..Len(g \o h)
      BY <3>2
    <3> QED BY <1>1, <3>1, <3>2, <3>3
  <2> QED BY <2>2, <2>3, <2>4 DEF GivenUp
<1> QED BY <1>4, <1>5, <1>6

-----------------------------------------------------------------------------
\* What the other steps do with the generator of a request.
Turns(r) ==
  \/ flow'[r] = flow[r]
  \/ flow'[r] = "broken"
  \/ flow[r] = "none" /\ flow'[r] = "open"
  \/ flow[r] = "open" /\ kind[r] # "native"

Aside(r) == Arrive(r) \/ Handle(r) \/ Raw(r) \/ Dispatch(r) \/ PassBytes(r) \/ Buffered(r)
            \/ Begin(r) \/ NeverBegun(r) \/ StreamOver(r) \/ CloseGenerator(r) \/ Collected(r)

LEMMA AsideTurns ==
  ASSUME PlaceInv, NEW r \in Requests, Aside(r)
  PROVE  UNCHANGED <<relay, kind>> /\ \A q \in Requests : Turns(q)
<1> USE DEF choice, middleware, relay, Turns
<1>0. DOMAIN flow = Requests
  BY DEF PlaceInv, Types
<1>1. CASE Arrive(r)
  BY <1>1 DEF Arrive
<1>2. CASE Handle(r)
  BY <1>2 DEF Handle
<1>3. CASE Raw(r)
  BY <1>3 DEF Raw, Passthrough
<1>4. CASE Dispatch(r)
  <2>1. flow[r] = "none"
    BY <1>4 DEF Dispatch, PlaceInv, Place
  <2> QED BY <1>0, <1>4, <2>1 DEF Dispatch
<1>5. CASE PassBytes(r)
  BY <1>0, <1>5 DEF PassBytes
<1>6. CASE Buffered(r)
  BY <1>6 DEF Buffered
<1>7. CASE Begin(r)
  BY <1>7 DEF Begin
<1>8. CASE NeverBegun(r)
  BY <1>0, <1>8 DEF NeverBegun
<1>9. CASE StreamOver(r)
  BY <1>9 DEF StreamOver
<1>10. CASE CloseGenerator(r)
  BY <1>0, <1>10 DEF CloseGenerator
<1>11. CASE Collected(r)
  BY <1>11 DEF Collected, Collect
<1> QED
  BY <1>1, <1>2, <1>3, <1>4, <1>5, <1>6, <1>7, <1>8, <1>9, <1>10, <1>11 DEF Aside

LEMMA PlaceKept ==
  ASSUME NEW q, RelayPlace(q), Turns(q), kind'[q] = kind[q],
         told'[q] = told[q], wire'[q] = wire[q], buf'[q] = buf[q],
         frames'[q] = frames[q], eof'[q] = eof[q]
  PROVE  RelayPlace(q)'
<1>1. CASE /\ wire[q] \in Seq(HalfFrames) /\ buf[q] \in Seq(HalfFrames) /\ Len(buf[q]) <= 1
           /\ Underway(told[q], buf[q] \o wire[q], frames[q])
           /\ ReadOut(q)
  <2>1. ReadOut(q)'
    BY <1>1 DEF ReadOut, Turns
  <2> QED BY <1>1, <2>1 DEF RelayPlace
<1>2. CASE GivenUp(told[q], frames[q], eof[q]) /\ flow[q] \in {"ended", "broken"}
  BY <1>2 DEF RelayPlace, Turns
<1> QED BY <1>1, <1>2 DEF RelayPlace

LEMMA OpenIsUnderway ==
  ASSUME NEW r, RelayPlace(r), flow[r] = "open"
  PROVE  /\ wire[r] \in Seq(HalfFrames) /\ buf[r] \in Seq(HalfFrames) /\ Len(buf[r]) <= 1
         /\ Underway(told[r], buf[r] \o wire[r], frames[r])
BY DEF RelayPlace

LEMMA RelayStarts == Init => RelayInv
<1> SUFFICES ASSUME Init PROVE RelayInv
  OBVIOUS
<1>1. /\ told = [r \in Streams |-> <<>>] /\ wire = [r \in Streams |-> <<>>]
      /\ buf = [r \in Streams |-> <<>>] /\ frames = [r \in Streams |-> <<>>]
      /\ eof = [r \in Streams |-> "none"] /\ kind \in Mixes
      /\ flow = [r \in Requests |-> "none"]
  BY Zenon DEF Init, RelayInit
<1>2. <<>> \o <<>> = <<>> /\ Known(<<>>) = <<>>
  <2>1. <<>> \in Seq(Kinds) /\ Len(<<>>) = 0
    BY EmptyFacts
  <2>2. /\ ToSet(<<>>) = {} /\ Increasing(<<>>) /\ <<>> \in Seq(Nat)
    <3>1. \A i, j \in 1..Len(<<>>) : i < j => <<>>[i] < <<>>[j]
      BY EmptyFacts
    <3> QED BY <3>1, IncreasingMeans, EmptyFacts, ToSetFacts
  <2>3. {k \in DOMAIN <<>> : <<>>[k] \in Forwarded} = {}
    OBVIOUS
  <2>4. Len(Selected(<<>>, ToSet(<<>>))) = 0 /\ Selected(<<>>, ToSet(<<>>)) \in Seq(Kinds)
    BY <2>1, <2>2, SelectedIs
  <2>5. Known(<<>>) = <<>>
    BY <2>2, <2>3, <2>4, EmptyFacts DEF Known
  <2> QED BY <2>1, <2>5, ConcatEmptySeq
<1>3. Cut(<<>>, <<>>)
  BY EmptyFacts DEF Cut
<1>4. Underway(<<>>, <<>>, <<>>)
  BY <1>2, <1>3, EmptyFacts DEF Underway
<1>5. ASSUME NEW r \in Streams PROVE RelayPlace(r)
  <2>1. /\ told[r] = <<>> /\ wire[r] = <<>> /\ buf[r] = <<>> /\ frames[r] = <<>>
        /\ flow[r] = "none"
    BY <1>1, MixesAssumption
  <2>2. <<>> \in Seq(HalfFrames) /\ Len(<<>>) <= 1
    BY EmptyFacts
  <2> QED BY <1>2, <1>4, <2>1, <2>2 DEF RelayPlace, ReadOut
<1> QED BY <1>1, <1>5 DEF RelayInv

LEMMA RelayStep == PlaceInv /\ RelayInv /\ [Next]_vars => RelayInv'
<1> SUFFICES ASSUME PlaceInv, RelayInv, [Next]_vars PROVE RelayInv'
  OBVIOUS
<1>0. /\ kind \in Mixes /\ \A q \in Streams : RelayPlace(q) /\ q \in Requests
      /\ DOMAIN told = Streams /\ DOMAIN wire = Streams /\ DOMAIN buf = Streams
      /\ DOMAIN frames = Streams /\ DOMAIN eof = Streams
      /\ \A q \in Requests : kind[q] = "native" => q \in Streams
      /\ DOMAIN flow = Requests
  BY MixesAssumption DEF RelayInv, PlaceInv, Types
<1>1. ASSUME UNCHANGED <<relay, kind>>, \A q \in Requests : Turns(q) PROVE RelayInv'
  <2>1. ASSUME NEW q \in Streams PROVE RelayPlace(q)'
    <3>1. /\ Turns(q) /\ kind'[q] = kind[q] /\ told'[q] = told[q] /\ wire'[q] = wire[q]
          /\ buf'[q] = buf[q] /\ frames'[q] = frames[q] /\ eof'[q] = eof[q] /\ RelayPlace(q)
      BY <1>0, <1>1 DEF relay
    <3> QED BY <3>1, PlaceKept
  <2> QED BY <1>0, <1>1, <2>1 DEF RelayInv, relay
<1>2. CASE UNCHANGED vars
  BY <1>1, <1>2 DEF vars, choice, middleware, Turns
<1>3. ASSUME NEW r \in Requests, UpstreamTalks(r) PROVE RelayInv'
  <2>1. /\ r \in Streams /\ flow[r] = "open" /\ flow' = flow /\ kind' = kind
        /\ SendHalf(r) \/ UpstreamEnds(r)
    BY <1>0, <1>3 DEF UpstreamTalks, choice, middleware
  <2>2. /\ wire[r] \in Seq(HalfFrames) /\ buf[r] \in Seq(HalfFrames) /\ Len(buf[r]) <= 1
        /\ Underway(told[r], buf[r] \o wire[r], frames[r])
    BY <1>0, <2>1, OpenIsUnderway
  <2>3. /\ DOMAIN told' = Streams /\ DOMAIN wire' = Streams /\ DOMAIN eof' = Streams
        /\ buf' = buf /\ frames' = frames
        /\ \A q \in Streams : q # r =>
             told'[q] = told[q] /\ wire'[q] = wire[q] /\ eof'[q] = eof[q]
    BY <1>0, <2>1 DEF SendHalf, UpstreamEnds
  <2>4. RelayPlace(r)'
    <3>1. wire'[r] \in Seq(HalfFrames) /\ Underway(told'[r], buf[r] \o wire'[r], frames[r])
      <4>1. CASE SendHalf(r)
        BY <2>1, <2>2, <4>1, SendKeeps
      <4>2. CASE UpstreamEnds(r)
        BY <2>2, <4>2 DEF UpstreamEnds
      <4> QED BY <2>1, <4>1, <4>2
    <3>2. flow'[r] = "open" /\ buf'[r] = buf[r] /\ frames'[r] = frames[r]
      BY <2>1, <2>3
    <3> QED BY <2>2, <3>1, <3>2 DEF RelayPlace, ReadOut
  <2>5. ASSUME NEW q \in Streams, q # r PROVE RelayPlace(q)'
    <3>1. Turns(q)
      BY <2>1 DEF Turns
    <3> QED BY <1>0, <2>1, <2>3, <2>5, <3>1, PlaceKept
  <2> QED BY <1>0, <2>1, <2>3, <2>4, <2>5 DEF RelayInv
<1>4. ASSUME NEW r \in Requests, RelayFrames(r) PROVE RelayInv'
  <2>1. /\ r \in Streams /\ flow[r] = "open" /\ kind' = kind /\ kind[r] = "native"
        /\ \/ Chunk(r) /\ EndedBy(r) /\ flow' = [flow EXCEPT ![r] = "ended"]
           \/ Chunk(r) /\ ~EndedBy(r) /\ flow' = flow
           \/ EndOfStream(r) /\ flow' = [flow EXCEPT ![r] = "ended"]
    BY <1>0, <1>4 DEF RelayFrames, choice
  <2>2. /\ wire[r] \in Seq(HalfFrames) /\ buf[r] \in Seq(HalfFrames) /\ Len(buf[r]) <= 1
        /\ Underway(told[r], buf[r] \o wire[r], frames[r])
    BY <1>0, <2>1, OpenIsUnderway
  <2>3. /\ DOMAIN frames' = Streams /\ DOMAIN wire' = Streams /\ DOMAIN buf' = Streams
        /\ told' = told /\ eof' = eof
        /\ \A q \in Streams : q # r =>
             /\ frames'[q] = frames[q] /\ wire'[q] = wire[q] /\ buf'[q] = buf[q]
             /\ flow'[q] = flow[q]
    BY <1>0, <2>1 DEF Chunk, EndOfStream
  <2>4. RelayPlace(r)'
    <3>1. CASE Chunk(r) /\ EndedBy(r) /\ flow' = [flow EXCEPT ![r] = "ended"]
      <4>1. GivenUp(told[r], frames'[r], eof[r])
        BY <2>1, <2>2, <3>1, ChunkKeeps
      <4>2. flow'[r] = "ended"
        BY <1>0, <3>1
      <4> QED BY <2>3, <4>1, <4>2 DEF RelayPlace
    <3>2. CASE Chunk(r) /\ ~EndedBy(r) /\ flow' = flow
      <4>1. /\ wire'[r] = <<>> /\ buf'[r] \in Seq(HalfFrames) /\ Len(buf'[r]) <= 1
            /\ Underway(told[r], buf'[r] \o wire'[r], frames'[r])
        BY <2>1, <2>2, <3>2, ChunkKeeps
      <4>2. flow'[r] = "open" /\ wire'[r] \in Seq(HalfFrames)
        BY <2>1, <3>2, <4>1, EmptyFacts
      <4> QED BY <2>3, <4>1, <4>2 DEF RelayPlace, ReadOut
    <3>3. CASE EndOfStream(r) /\ flow' = [flow EXCEPT ![r] = "ended"]
      <4>1. flow'[r] = "ended" /\ wire' = wire /\ buf' = buf
        BY <1>0, <3>3 DEF EndOfStream
      <4>2. CASE eof[r] = "clean" /\ wire[r] = <<>> /\ frames' = frames
        BY <2>2, <2>3, <4>1, <4>2 DEF RelayPlace, ReadOut
      <4>3. CASE eof[r] = "broken" /\ frames' = [frames EXCEPT ![r] = Append(@, "error")]
        <5>1. frames'[r] = Append(frames[r], "error")
          BY <1>0, <2>1, <4>3
        <5>2. GivenUp(told[r], frames'[r], eof[r])
          BY <2>2, <4>3, <5>1 DEF Underway, GivenUp
        <5> QED BY <2>3, <4>1, <5>2 DEF RelayPlace
      <4> QED BY <3>3, <4>2, <4>3 DEF EndOfStream
    <3> QED BY <2>1, <3>1, <3>2, <3>3
  <2>5. ASSUME NEW q \in Streams, q # r PROVE RelayPlace(q)'
    <3>1. Turns(q)
      BY <2>3, <2>5 DEF Turns
    <3> QED BY <1>0, <2>1, <2>3, <2>5, <3>1, PlaceKept
  <2> QED BY <1>0, <2>1, <2>3, <2>4, <2>5 DEF RelayInv
<1>5. ASSUME NEW r \in Requests, Aside(r) PROVE RelayInv'
  BY <1>1, <1>5, AsideTurns
<1> QED BY <1>2, <1>3, <1>4, <1>5 DEF Next, Aside

LEMMA RelayAlways == Spec => [](PlaceInv /\ RelayInv)
<1>1. Init => PlaceInv /\ RelayInv
  BY PlaceInit, RelayStarts
<1>2. PlaceInv /\ RelayInv /\ [Next]_vars => (PlaceInv /\ RelayInv)'
  BY PlaceStep, RelayStep
<1> QED BY <1>1, <1>2, PTL DEF Spec

-----------------------------------------------------------------------------
LEMMA PrefixThere ==
  ASSUME NEW T, NEW s \in Seq(T), NEW t \in Seq(T)
  PROVE  IsPrefix(s, s \o t)
<1> DEFINE u == s \o t
           a == SubSeq(s, 1, Len(s))
           b == SubSeq(u, 1, Len(s))
<1>1. /\ Len(s) \in Nat /\ Len(t) \in Nat /\ u \in Seq(T) /\ Len(u) = Len(s) + Len(t)
      /\ \A k \in 1..Len(s) : u[k] = s[k]
  BY ConcatFacts
<1>2. Len(s) \in 0..Len(s) /\ Len(s) \in 0..Len(u) /\ Len(s) <= Len(u)
  BY <1>1
<1>3. a \in Seq(T) /\ Len(a) = Len(s) /\ \A k \in 1..Len(s) : a[k] = s[k]
  BY <1>2, SplitAt
<1> HIDE DEF u
<1>4. b \in Seq(T) /\ Len(b) = Len(s) /\ \A k \in 1..Len(s) : b[k] = u[k]
  BY <1>1, <1>2, SplitAt
<1> HIDE DEF a, b
<1>5. a = b
  BY <1>1, <1>3, <1>4, SeqEqual
<1> QED BY <1>2, <1>5 DEF IsPrefix, a, b, u

LEMMA WithoutLast ==
  ASSUME NEW T, NEW s \in Seq(T), NEW e \in T
  PROVE  /\ Append(s, e) # <<>> /\ Append(s, e)[Len(Append(s, e))] = e
         /\ SubSeq(Append(s, e), 1, Len(Append(s, e)) - 1) = s
<1> DEFINE u == Append(s, e)
           a == SubSeq(u, 1, Len(s))
<1>1. /\ Len(s) \in Nat /\ u \in Seq(T) /\ Len(u) = Len(s) + 1 /\ u[Len(s) + 1] = e
      /\ \A k \in 1..Len(s) : u[k] = s[k]
  OBVIOUS
<1> HIDE DEF u
<1>2. Len(s) \in 0..Len(u) /\ Len(u) - 1 = Len(s) /\ u # <<>>
  BY <1>1
<1>3. a \in Seq(T) /\ Len(a) = Len(s) /\ \A k \in 1..Len(s) : a[k] = u[k]
  BY <1>1, <1>2, SplitAt
<1> HIDE DEF a
<1>4. a = s
  BY <1>1, <1>3, SeqEqual
<1> QED BY <1>1, <1>2, <1>4 DEF a, u

\* Of a stream under way the client has the known events of what was decoded; read to
\* its end, that is all but a frame cut in half.
LEMMA UnderwayShows ==
  ASSUME NEW r, wire[r] \in Seq(HalfFrames), buf[r] \in Seq(HalfFrames), Len(buf[r]) <= 1,
         Underway(told[r], buf[r] \o wire[r], frames[r])
  PROVE  /\ frames[r] # <<>> => frames[r][Len(frames[r])] # "error"
         /\ IsPrefix(frames[r], Events(r))
         /\ wire[r] = <<>> => frames[r] = CleanEvents(r)
<1>1. PICK g \in Seq(Kinds), h \in Seq(Kinds) :
        told[r] = g \o h /\ frames[r] = Known(g) /\ Cut(buf[r] \o wire[r], h)
  BY DEF Underway
<1>2. Known(g) \in Seq(Forwarded) /\ Known(h) \in Seq(Forwarded)
  BY KnownTyped
<1>3. frames[r] # <<>> => frames[r][Len(frames[r])] # "error"
  <2> DEFINE fs == frames[r]
  <2>1. fs \in Seq(Forwarded)
    BY <1>1, <1>2
  <2> HIDE DEF fs
  <2>2. fs # <<>> => fs[Len(fs)] \in Forwarded
    BY <2>1
  <2> QED BY <2>2 DEF fs, Forwarded
<1>4. IsPrefix(frames[r], Events(r))
  <2>1. Known(told[r]) = Known(g) \o Known(h)
    BY <1>1, KnownConcat
  <2>2. IsPrefix(Known(g), Known(g) \o Known(h))
    BY <1>2, PrefixThere
  <2> QED BY <1>1, <2>1, <2>2 DEF Events
<1>5. ASSUME wire[r] = <<>> PROVE frames[r] = CleanEvents(r)
  <2> DEFINE b == buf[r]
             n == Len(h)
             m == Len(b)
  <2>1. b \o wire[r] = b
    BY <1>5, ConcatEmptySeq
  <2>2. Cut(b, h) /\ m <= 1
    BY <1>1, <2>1
  <2>3. /\ n \in Nat /\ m \in Nat /\ (m = 2 * n \/ m = 2 * n - 1) /\ (b = <<>> <=> n = 0)
        /\ \A k \in 1..n : b[2 * k - 1] = Half(h[k], 1)
    BY ONLY <2>2, h \in Seq(Kinds), CutFacts
  <2>4. LastHalf(r) = IF b = <<>> THEN Half("none", 2) ELSE b[m]
    BY <2>1, LastOfAll
  <2>5. /\ Len(g) \in Nat /\ told[r] \in Seq(Kinds) /\ Len(told[r]) = Len(g) + n
        /\ \A k \in 1..Len(g) : told[r][k] = g[k]
    BY <1>1, ConcatFacts
  <2> HIDE DEF b, n, m
  <2>6. CASE n = 0
    <3>1. LastHalf(r).part = 2
      BY <2>3, <2>4, <2>6 DEF Half
    <3>2. told[r] = g
      <4>1. h = <<>>
        BY <2>6, EmptyFacts DEF n
      <4> QED BY <1>1, <4>1, ConcatEmptySeq
    <3> QED BY <1>1, <3>1, <3>2 DEF CleanEvents, Complete
  <2>7. CASE n # 0
    <3>1. n = 1 /\ m = 1
      BY <2>2, <2>3, <2>7
    <3>2. LastHalf(r).part = 1
      <4>1. 1 \in 1..n /\ 2 * 1 - 1 = m
        BY <3>1
      <4>2. b[m] = Half(h[1], 1)
        BY <2>3, <4>1
      <4>3. LastHalf(r) = Half(h[1], 1)
        BY <2>3, <2>4, <2>7, <4>2
      <4> QED BY ONLY <4>3 DEF Half
    <3>3. SubSeq(told[r], 1, Len(told[r]) - 1) = g
      <4> DEFINE t == told[r]
                 a == SubSeq(t, 1, Len(g))
      <4>1. Len(t) - 1 = Len(g) /\ Len(g) \in 0..Len(t)
        BY <2>5, <3>1
      <4>2. a \in Seq(Kinds) /\ Len(a) = Len(g) /\ \A k \in 1..Len(g) : a[k] = t[k]
        <5>1. t \in Seq(Kinds)
          BY <2>5
        <5> HIDE DEF t
        <5> QED BY <4>1, <5>1, SplitAt
      <4> HIDE DEF a
      <4>3. a = g
        BY <2>5, <4>2, SeqEqual
      <4> QED BY <4>1, <4>3 DEF a
    <3> QED BY <1>1, <3>2, <3>3 DEF CleanEvents, Complete
  <2> QED BY <2>6, <2>7
<1> QED BY <1>3, <1>4, <1>5

\* And of one that was given up, an error after them.
LEMMA GivenUpShows ==
  ASSUME NEW r, GivenUp(told[r], frames[r], eof[r])
  PROVE  /\ frames[r] # <<>> /\ frames[r][Len(frames[r])] = "error"
         /\ IsPrefix(SubSeq(frames[r], 1, Len(frames[r]) - 1), Events(r))
         /\ eof[r] = "broken" \/ {"exception", "shapeless"} \intersect ToSet(told[r]) # {}
<1>1. PICK g \in Seq(Kinds), h \in Seq(Kinds) :
        told[r] = g \o h /\ frames[r] = Append(Known(g), "error")
  BY DEF GivenUp
<1>2. Known(g) \in Seq(Frames) /\ Known(h) \in Seq(Frames) /\ "error" \in Frames
  BY KnownFrames DEF Frames
<1>3. /\ frames[r] # <<>> /\ frames[r][Len(frames[r])] = "error"
      /\ SubSeq(frames[r], 1, Len(frames[r]) - 1) = Known(g)
  BY <1>1, <1>2, WithoutLast
<1>4. IsPrefix(Known(g), Events(r))
  <2>1. Known(told[r]) = Known(g) \o Known(h)
    BY <1>1, KnownConcat
  <2>2. IsPrefix(Known(g), Known(g) \o Known(h))
    BY <1>2, PrefixThere
  <2> QED BY <1>1, <2>1, <2>2 DEF Events
<1>5. ASSUME NEW k \in 1..Len(told[r]), told[r][k] \in Deadly
      PROVE  {"exception", "shapeless"} \intersect ToSet(told[r]) # {}
  <2>1. told[r] \in Seq(Kinds)
    BY <1>1, ConcatFacts
  <2>2. told[r][k] \in ToSet(told[r])
    <3> DEFINE t == told[r]
    <3>1. t \in Seq(Kinds) /\ k \in 1..Len(t)
      BY <2>1
    <3> HIDE DEF t
    <3>2. t[k] \in ToSet(t)
      BY <3>1, ToSetFacts
    <3> QED BY <3>2 DEF t
  <2> QED BY <1>5, <2>2 DEF Deadly
<1> QED BY <1>3, <1>4, <1>5 DEF GivenUp

\* However the upstream's frames are cut into chunks, the client gets the known events
\* once each and in order, then at most one error frame, and a stream that ends without
\* one has passed on all of them (RelayFaithful): what was decoded is always the known
\* events of a first part of what was begun, and what is not decoded is in the buffer,
\* which keeps at most half a frame.
THEOREM RelayKeepsEvents == Spec => []RelayFaithful
<1>1. PlaceInv /\ RelayInv => RelayFaithful
  <2> SUFFICES ASSUME RelayInv, NEW r \in Streams
               PROVE  LET fs == frames[r]
                          failed == fs # <<>> /\ fs[Len(fs)] = "error"
                          good == IF failed THEN SubSeq(fs, 1, Len(fs) - 1) ELSE fs
                      IN /\ IsPrefix(good, Events(r))
                         /\ flow[r] = "ended" /\ kind[r] = "native" =>
                              /\ failed \/ (eof[r] = "clean" /\ good = CleanEvents(r))
                              /\ failed => \/ eof[r] = "broken"
                                           \/ {"exception", "shapeless"} \intersect ToSet(told[r]) # {}
    BY DEF RelayFaithful
  <2>1. RelayPlace(r)
    BY DEF RelayInv
  <2>2. CASE /\ wire[r] \in Seq(HalfFrames) /\ buf[r] \in Seq(HalfFrames) /\ Len(buf[r]) <= 1
             /\ Underway(told[r], buf[r] \o wire[r], frames[r])
             /\ ReadOut(r)
    <3>1. /\ frames[r] # <<>> => frames[r][Len(frames[r])] # "error"
          /\ IsPrefix(frames[r], Events(r))
          /\ wire[r] = <<>> => frames[r] = CleanEvents(r)
      BY <2>2, UnderwayShows
    <3> QED BY <2>2, <3>1 DEF ReadOut
  <2>3. CASE GivenUp(told[r], frames[r], eof[r])
    BY <2>3, GivenUpShows
  <2> QED BY <2>1, <2>2, <2>3 DEF RelayPlace
<1> QED BY <1>1, RelayAlways, PTL
=============================================================================

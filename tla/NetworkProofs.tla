---------------------------- MODULE NetworkProofs ----------------------------
(***************************************************************************)
(* Proofs about Network: whatever the network loses, doubles, delays and   *)
(* reorders, every command gets one answer, its own, and a download whose  *)
(* segments arrive once and in order is printed whole.                     *)
(*                                                                         *)
(* The invariant follows the numbers by which a job knows its answers.     *)
(* Echo numbers and ports come from counters, so a message that carries    *)
(* the number of the present job is of that job; tags come from the clock, *)
(* so there it is unless the tag was taken before.                         *)
(***************************************************************************)
EXTENDS Network, FiniteSetTheorems, TLAPS

\* How long, in seconds, a prover may take over one leaf.
USE ZenonT(60)

Key == Nat \cup TAGS
JobIds == 1..JOBS
AskT == [p : {"ping", "dns", "udp", "syn", "get"}, to : Hosts, key : Key, of : JobIds]
FrameT == [p : {"echo", "dns", "udp", "tcp", "unreachable"}, from : Hosts, port : Key,
           x : Nat \cup {RST}, of : JobIds]
Part == [of : JobIds, n : Int]
ResultT == [id : JobIds, win : Windows, kind : {"ping", "resolve", "tcp", "udp"}, host : Hosts,
            what : {"ok", "unknown", "unreachable", "refused", "timeout"}, of : JobIds, body : Seq(Part)]
PingT == [kind : {"ping"}, id : JobIds, win : Windows, host : Hosts, key : Key]
UdpT == [kind : {"udp"}, id : JobIds, win : Windows, host : Hosts, key : Key]
ResolveT == [kind : {"resolve"}, id : JobIds, win : Windows, host : Hosts, key : Key,
             next : {"tcp", "udp"}]
TcpT == [kind : {"tcp"}, id : JobIds, win : Windows, host : Hosts, key : Key, state : {0, 1},
         rx : Seq(Part)]

\* The types of all variables, and how far the counters can have come.
NetTypes ==
    /\ nic \in BOOLEAN
    /\ job \in {NoJob} \cup PingT \cup UdpT \cup ResolveT \cup TcpT
    /\ pings \in Nat /\ ports \in Nat /\ came \in Nat
    /\ reply \in Nobody..(pings - 1)
    /\ rxq \in Seq(FrameT) /\ Len(rxq) <= QUEUE
    /\ asks \subseteq AskT /\ wire \subseteq FrameT
    /\ issuer \in Seq([win : Windows, host : Hosts]) /\ Len(issuer) <= JOBS
    /\ results \in Seq(ResultT)
    /\ seen \in [JobIds -> Nat] /\ spoilt \subseteq JobIds
    /\ tags \subseteq TAGS /\ reused \subseteq JobIds
    /\ pings <= Len(issuer)
    /\ ports + (IF job.kind = "resolve" THEN 1 ELSE 0) <= Len(issuer)

\* The job in progress is the last one that was started; the earlier ones have
\* been answered, each in its window and in the order in which they came.
OneEach ==
    /\ Len(results) = IF job = NoJob THEN Len(issuer) ELSE Len(issuer) - 1
    /\ \A i \in DOMAIN results : results[i].id = i /\ results[i].win = issuer[i].win
    /\ job # NoJob => job.id = Len(issuer) /\ job.win = issuer[job.id].win

\* A question or answer: whose it is, from whom, and by which number.
MsgOK(p, key, of, host) ==
    /\ of \in 1..Len(issuer)
    /\ host = issuer[of].host \/ of \in reused
    /\ p \in {"ping", "echo"} =>
          key \in 0..(pings - 1) /\ (job.kind = "ping" /\ job.key = key => of = job.id)
    /\ p \in {"syn", "get", "tcp"} =>
          key \in 0..(ports - 1) /\ (job.kind = "tcp" /\ job.key = key => of = job.id)
    /\ p \in {"dns", "udp"} =>
          key \in tags /\ (job.kind \in {"resolve", "udp"} /\ job.key = key /\ job.id \notin reused
                           => of = job.id)

OwnMessages ==
    /\ \A q \in asks : MsgOK(q.p, q.key, q.of, q.to)
    /\ \A f \in wire : MsgOK(f.p, f.port, f.of, f.from)
    /\ \A i \in DOMAIN rxq : MsgOK(rxq[i].p, rxq[i].port, rxq[i].of, rxq[i].from)
    /\ job.kind = "ping" => job.key \in 0..(pings - 1) /\ reply # job.key
    /\ job.kind = "tcp" => job.key \in 0..(ports - 1)
    /\ job.kind \in {"resolve", "udp"} => job.key \in tags
    /\ job # NoJob => job.host = issuer[job.id].host \/ job.id \in reused

\* Segments come only after their connection was made, and are known by it.
Segment(f) == f.p = "tcp" /\ f.x > 0
Connected(id) == job # NoJob /\ job.id = id => job.kind = "tcp" /\ job.state = 1
SegOK(key, of, host) == Connected(of) /\ (job # NoJob /\ job.id = of => job.key = key /\ job.host = host)
OwnSegments ==
    /\ \A q \in asks : q.p = "get" => SegOK(q.key, q.of, q.to)
    /\ \A f \in wire : Segment(f) => SegOK(f.port, f.of, f.from)
    /\ \A i \in DOMAIN rxq : Segment(rxq[i]) => SegOK(rxq[i].port, rxq[i].of, rxq[i].from)
    /\ \A i \in JobIds : seen[i] > 0 => i <= Len(issuer) /\ Connected(i)

\* What has been taken and what waits in the ring are together, in order, what
\* arrived.
Mine(i) == Segment(rxq[i]) /\ rxq[i].of = job.id
Ordered ==
    job.kind = "tcp" =>
        /\ job.state = 0 => job.rx = <<>>
        /\ \A k \in DOMAIN job.rx : job.rx[k].of = job.id
        /\ job.id \notin spoilt =>
             /\ \A k \in DOMAIN job.rx : job.rx[k].n = k
             /\ Len(job.rx) <= seen[job.id]
             /\ \A i \in DOMAIN rxq : Mine(i) => rxq[i].x \in (Len(job.rx) + 1)..seen[job.id]
             /\ \A x \in (Len(job.rx) + 1)..seen[job.id] :
                   \E i \in DOMAIN rxq : Mine(i) /\ rxq[i].x = x
             /\ \A i, j \in DOMAIN rxq : Mine(i) /\ Mine(j) /\ i < j => rxq[i].x < rxq[j].x

NetInv == /\ NetTypes /\ OneEach /\ OwnMessages /\ AnswersItsOwn
          /\ OwnSegments /\ Ordered /\ BodyIsTheReply

-----------------------------------------------------------------------------
(* Types *)

\* A job's kind says which record it is (enum NetJob).
LEMMA JobKinds ==
    ASSUME NetTypes
    PROVE  /\ job = NoJob <=> job.kind = "none"
           /\ job.kind = "ping" => job \in PingT
           /\ job.kind = "udp" => job \in UdpT
           /\ job.kind = "resolve" => job \in ResolveT
           /\ job.kind = "tcp" => job \in TcpT
           /\ job # NoJob => job.id \in JobIds /\ job.win \in Windows /\ job.host \in Hosts
                              /\ job.key \in Key /\ job.kind \in {"ping", "resolve", "tcp", "udp"}
  BY SMTT(60) DEF NetTypes, NoJob, PingT, UdpT, ResolveT, TcpT

\* The bound on jobs is a number.
LEMMA JobsFinite == JOBS \in Nat
  BY NetAssumption, SMTT(60) DEF PORTS

\* The counters do not come round within JOBS jobs.
LEMMA Counters ==
    ASSUME NEW n \in Nat, n < JOBS
    PROVE  n % SEQS = n /\ n % PORTS = n
  <1>1. n < 65536 /\ n < 16384 /\ SEQS = 65536 /\ PORTS = 16384
    BY NetAssumption, SMTT(60) DEF SEQS, PORTS
  <1>2. n % 65536 = n
    BY <1>1, SMTT(60)
  <1>3. n % 16384 = n
    BY <1>1, SMTT(60)
  <1> QED
    BY <1>1, <1>2, <1>3, SMTT(60)

\* What a host sends is a frame, of the same job and with the same number.
LEMMA AnswersTyped ==
    ASSUME NEW q \in AskT, NEW fs \in Answers(q), NEW f \in fs
    PROVE  /\ f \in FrameT
           /\ f.of = q.of /\ f.port = q.key /\ f.from = q.to
           /\ \/ q.p = "ping" /\ f.p = "echo"
              \/ q.p = "dns" /\ f.p = "dns"
              \/ q.p = "udp" /\ f.p = "udp"
              \/ q.p = "syn" /\ f.p = "tcp" /\ f.x \in {SYN_ACK, RST}
              \/ q.p = "syn" /\ f.p = "unreachable"
              \/ q.p = "get" /\ f.p = "tcp" /\ f.x \in 1..SEGS
  <1>1. q.p = "ping" \/ q.p = "dns" \/ q.p = "udp" \/ q.p = "syn" \/ q.p = "get"
    BY DEF AskT
  <1>2. CASE q.p = "ping"
    BY <1>2, SMTT(60) DEF Answers, Frame, AskT, FrameT
  <1>3. CASE q.p = "dns"
    BY <1>3, SMTT(60) DEF Answers, Frame, AskT, FrameT
  <1>4. CASE q.p = "udp"
    BY <1>4, SMTT(60) DEF Answers, Frame, AskT, FrameT
  <1>5. CASE q.p = "syn"
    BY <1>5, SMTT(60) DEF Answers, Frame, AskT, FrameT, SYN_ACK, RST
  <1>6. CASE q.p = "get"
    BY <1>6, NetAssumption, SMTT(60) DEF Answers, Frame, AskT, FrameT
  <1> QED
    BY <1>1, <1>2, <1>3, <1>4, <1>5, <1>6

-----------------------------------------------------------------------------
(* Frames that wait, and messages that were sent *)

\* OneEach is what OneResultEach counts.
LEMMA CountsResults ==
    ASSUME NetTypes, OneEach
    PROVE  OneResultEach
  <1> DEFINE told == {results[i].id : i \in DOMAIN results}
  <1>1. Len(results) \in Nat /\ DOMAIN results = 1..Len(results) /\ DOMAIN issuer = 1..Len(issuer)
        /\ Len(issuer) \in Nat
    BY SMTT(60) DEF NetTypes
  <1>2. told = 1..Len(results)
    <2>1. \A i \in DOMAIN results : results[i].id = i
      BY DEF OneEach
    <2>2. \A x : x \in told <=> x \in DOMAIN results
      BY <2>1
    <2> QED
      BY <1>1, <2>2
  <1> HIDE DEF told
  <1>c. Cardinality(1..Len(results)) = IF 1 > Len(results) THEN 0 ELSE Len(results) - 1 + 1
    <2>1. \A a, b \in Int : Cardinality(a..b) = IF a > b THEN 0 ELSE b - a + 1
      BY FS_Interval
    <2>2. 1 \in Int /\ Len(results) \in Int
      BY <1>1, SMTT(60)
    <2> QED
      BY <2>1, <2>2
  <1>3. Cardinality(told) = Len(results)
    BY <1>1, <1>2, <1>c, SMTT(60)
  <1>4. told \cup (IF job = NoJob THEN {} ELSE {job.id}) = DOMAIN issuer
    <2>1. CASE job = NoJob
      BY <1>1, <1>2, <2>1 DEF OneEach
    <2>2. CASE job # NoJob
      <3>1. Len(issuer) \in Nat /\ Len(results) = Len(issuer) - 1 /\ job.id = Len(issuer)
        BY <1>1, <2>2 DEF OneEach
      <3>2. (1..Len(results)) \cup {job.id} = 1..Len(issuer)
        BY <1>1, <3>1, SMTT(60)
      <3> QED
        BY <1>1, <1>2, <2>2, <3>2
    <2> QED
      BY <2>1, <2>2
  <1>5. \A i \in DOMAIN results : results[i].win = issuer[results[i].id].win
    BY DEF OneEach
  <1> QED
    BY <1>3, <1>4, <1>5 DEF OneResultEach, told

\* poll takes the head of the ring; the rest keeps its order.
LEMMA TakesHead ==
    ASSUME NetTypes, Takes
    PROVE  /\ Head(rxq) = rxq[1] /\ 1 \in DOMAIN rxq /\ rxq[1] \in FrameT
           /\ rxq' \in Seq(FrameT) /\ Len(rxq') = Len(rxq) - 1 /\ Len(rxq') <= QUEUE
           /\ \A i \in DOMAIN rxq' : i + 1 \in DOMAIN rxq /\ rxq'[i] = rxq[i + 1]
           /\ \A i \in DOMAIN rxq : i # 1 => i - 1 \in DOMAIN rxq' /\ rxq'[i - 1] = rxq[i]
  BY NetAssumption, SMTT(60) DEF NetTypes, Takes

-----------------------------------------------------------------------------
(* A job ends *)

\* Done, with a message that answers the job's own question.
LEMMA DoneStep ==
    ASSUME NetInv, NEW what \in {"ok", "unknown", "unreachable", "refused", "timeout"},
           NEW of \in JobIds, NEW body \in Seq(Part),
           job # NoJob, Done(what, of, body), Keeps, UNCHANGED <<pings, ports, asks, tags, reused>>,
           Takes \/ rxq' = rxq,
           reply' \in Nobody..(pings - 1),
           \/ of = job.id \/ what = "unreachable"
           \/ job.id \in reused /\ job.kind \in {"resolve", "udp"},
           job.kind = "tcp" /\ what = "ok" =>
              /\ \A k \in DOMAIN body : body[k].of = job.id
              /\ job.id \in spoilt \/ body = [k \in 1..SEGS |-> [of |-> job.id, n |-> k]]
    PROVE  NetInv'
  <1> DEFINE r == [id |-> job.id, win |-> job.win, kind |-> job.kind, host |-> job.host,
                   what |-> what, of |-> of, body |-> body]
  <1>t. NetTypes
    BY DEF NetInv
  <1>r. r \in ResultT /\ job.id \in JobIds
    BY <1>t, JobKinds DEF ResultT
  <1>1. /\ job' = NoJob /\ results' = Append(results, r)
        /\ nic' = nic /\ wire' = wire /\ came' = came /\ issuer' = issuer /\ seen' = seen
        /\ spoilt' = spoilt /\ pings' = pings /\ ports' = ports /\ asks' = asks /\ tags' = tags
        /\ reused' = reused
    BY DEF Done, Keeps
  <1>f. r.id = job.id /\ r.win = job.win /\ r.kind = job.kind /\ r.host = job.host
        /\ r.what = what /\ r.of = of /\ r.body = body
    OBVIOUS
  <1> HIDE DEF r
  <1>2. /\ rxq' \in Seq(FrameT) /\ Len(rxq') <= QUEUE
        /\ \A i \in DOMAIN rxq' : \E j \in DOMAIN rxq : rxq'[i] = rxq[j]
    BY <1>t, TakesHead DEF NetTypes
  <1>3. /\ results \in Seq(ResultT) /\ results' \in Seq(ResultT)
        /\ Len(results) \in Nat /\ DOMAIN results = 1..Len(results)
        /\ Len(results') = Len(results) + 1 /\ DOMAIN results' = 1..(Len(results) + 1)
        /\ \A i \in DOMAIN results : results'[i] = results[i]
        /\ results'[Len(results) + 1] = r
    BY <1>t, <1>1, <1>r, SMTT(60) DEF NetTypes
  <1>k. NoJob.kind = "none"
    BY DEF NoJob
  <1>4. NetTypes'
    BY <1>t, <1>1, <1>2, <1>3, <1>k, SMTT(60) DEF NetTypes
  <1>5. OneEach'
    <2>1. Len(results) = Len(issuer) - 1 /\ job.id = Len(issuer) /\ job.win = issuer[job.id].win
      BY DEF NetInv, OneEach
    <2>2. Len(issuer) \in Nat
      BY <1>t, SMTT(60) DEF NetTypes
    <2>3. \A i \in DOMAIN results' : results'[i].id = i /\ results'[i].win = issuer[i].win
      BY <1>3, <1>f, <2>1, <2>2, SMTT(60) DEF NetInv, OneEach
    <2> QED
      BY <1>1, <1>3, <2>1, <2>2, <2>3, SMTT(60) DEF OneEach
  <1>6. OwnMessages'
    <2>1. \A p, key, o, h : MsgOK(p, key, o, h) => MsgOK(p, key, o, h)'
      BY <1>1, <1>k, SMTT(60) DEF MsgOK
    <2>2. OwnMessages
      BY DEF NetInv
    <2> QED
      BY <1>1, <1>2, <1>k, <2>1, <2>2 DEF OwnMessages
  <1>7. AnswersItsOwn'
    <2>1. job.host = issuer[job.id].host \/ job.id \in reused
      BY DEF NetInv, OwnMessages
    <2> QED
      BY <1>1, <1>3, <1>f, <2>1, SMTT(60) DEF NetInv, AnswersItsOwn
  <1>8. OwnSegments'
    <2>1. OwnSegments
      BY DEF NetInv
    <2> QED
      BY <1>1, <2>1 DEF OwnSegments, SegOK, Connected
  <1>9. Ordered'
    BY <1>1, <1>k DEF Ordered
  <1>10. BodyIsTheReply'
    <2> DEFINE Whole(q) ==
          q.kind = "tcp" /\ q.what = "ok" =>
            /\ \A k \in DOMAIN q.body : q.body[k].of = q.id
            /\ q.id \in spoilt \/ q.body = [k \in 1..SEGS |-> [of |-> q.id, n |-> k]]
    <2>1. \A i \in DOMAIN results : Whole(results[i])
      BY DEF NetInv, BodyIsTheReply
    <2>2. Whole(r)
      BY <1>f
    <2> HIDE DEF Whole
    <2>3. \A i \in DOMAIN results' : Whole(results'[i])
      BY <1>3, <2>1, <2>2, SMTT(60)
    <2> QED
      BY <1>1, <2>3 DEF BodyIsTheReply, Whole
  <1> QED
    BY <1>4, <1>5, <1>6, <1>7, <1>8, <1>9, <1>10 DEF NetInv

\* A frame that is not of the job is dropped.
LEMMA PendingStep ==
    ASSUME NetInv, Takes, Pending, Keeps, UNCHANGED <<pings, ports, asks, tags, reused>>,
           reply' \in Nobody..(pings - 1), job.kind = "ping" => reply' # job.key,
           job.kind = "tcp" => ~Mine(1)
    PROVE  NetInv'
  <1>t. NetTypes
    BY DEF NetInv
  <1>1. /\ job' = job /\ results' = results
        /\ nic' = nic /\ wire' = wire /\ came' = came /\ issuer' = issuer /\ seen' = seen
        /\ spoilt' = spoilt /\ pings' = pings /\ ports' = ports /\ asks' = asks /\ tags' = tags
        /\ reused' = reused
    BY DEF Pending, Keeps
  <1>2. /\ rxq' \in Seq(FrameT) /\ Len(rxq') = Len(rxq) - 1 /\ Len(rxq') <= QUEUE
        /\ \A i \in DOMAIN rxq' : i + 1 \in DOMAIN rxq /\ rxq'[i] = rxq[i + 1]
        /\ \A i \in DOMAIN rxq : i # 1 => i - 1 \in DOMAIN rxq' /\ rxq'[i - 1] = rxq[i]
    BY <1>t, TakesHead
  <1>3. DOMAIN rxq \subseteq Int /\ DOMAIN rxq' \subseteq Int
    BY <1>t, <1>2, SMTT(60) DEF NetTypes
  <1>4. NetTypes'
    BY <1>t, <1>1, <1>2 DEF NetTypes
  <1>5. OneEach'
    BY <1>1 DEF NetInv, OneEach
  <1>6. OwnMessages'
    <2>1. \A p, key, o, h : MsgOK(p, key, o, h) => MsgOK(p, key, o, h)'
      BY <1>1, SMTT(60) DEF MsgOK
    <2>2. OwnMessages
      BY DEF NetInv
    <2>3. \A i \in DOMAIN rxq' : MsgOK(rxq[i + 1].p, rxq[i + 1].port, rxq[i + 1].of, rxq[i + 1].from)
      BY <1>2, <2>2 DEF OwnMessages
    <2> QED
      BY <1>1, <1>2, <2>1, <2>2, <2>3 DEF OwnMessages
  <1>7. AnswersItsOwn' /\ BodyIsTheReply'
    BY <1>1, SMTT(60) DEF NetInv, AnswersItsOwn, BodyIsTheReply
  <1>8. OwnSegments'
    <2>1. OwnSegments
      BY DEF NetInv
    <2>2. \A key, o, h : SegOK(key, o, h) => SegOK(key, o, h)'
      BY <1>1 DEF SegOK, Connected
    <2>3. \A i \in DOMAIN rxq' : Segment(rxq[i + 1]) => SegOK(rxq[i + 1].port, rxq[i + 1].of, rxq[i + 1].from)
      BY <1>2, <2>1 DEF OwnSegments
    <2>4. \A i : Connected(i) => Connected(i)'
      BY <1>1 DEF Connected
    <2> QED
      BY <1>1, <1>2, <2>1, <2>2, <2>3, <2>4 DEF OwnSegments, Segment
  <1>9. Ordered'
    <2>1. \A i \in DOMAIN rxq' : Mine(i)' <=> Mine(i + 1)
      BY <1>1, <1>2 DEF Mine, Segment
    <2>2. ASSUME job.kind = "tcp" PROVE \A i \in DOMAIN rxq : Mine(i) => i - 1 \in DOMAIN rxq' /\ Mine(i - 1)'
      BY <1>1, <1>2, <2>2 DEF Mine, Segment
    <2>3. Ordered
      BY DEF NetInv
    <2> SUFFICES ASSUME job.kind = "tcp" PROVE Ordered'
      BY <1>1 DEF Ordered
    <2>4. CASE job.id \in spoilt
      BY <1>1, <2>3, <2>4 DEF Ordered
    <2>5. CASE job.id \notin spoilt
      <3>1. \A i \in DOMAIN rxq' : Mine(i)' => rxq'[i].x \in (Len(job.rx) + 1)..seen[job.id]
        BY <1>2, <2>1, <2>3, <2>5 DEF Ordered
      <3>2. \A x \in (Len(job.rx) + 1)..seen[job.id] : \E i \in DOMAIN rxq' : Mine(i)' /\ rxq'[i].x = x
        <4>1. SUFFICES ASSUME NEW x \in (Len(job.rx) + 1)..seen[job.id]
                       PROVE  \E i \in DOMAIN rxq' : Mine(i)' /\ rxq'[i].x = x
          OBVIOUS
        <4>2. PICK j \in DOMAIN rxq : Mine(j) /\ rxq[j].x = x
          BY <2>3, <2>5 DEF Ordered
        <4>3. j - 1 \in DOMAIN rxq' /\ Mine(j - 1)'
          BY <2>2, <4>2
        <4>4. rxq'[j - 1] = rxq[j]
          BY <1>2, <4>3, SMTT(60)
        <4> QED BY <4>2, <4>3, <4>4
      <3>3. \A i, j \in DOMAIN rxq' : Mine(i)' /\ Mine(j)' /\ i < j => rxq'[i].x < rxq'[j].x
        <4>1. \A i, j \in DOMAIN rxq : Mine(i) /\ Mine(j) /\ i < j => rxq[i].x < rxq[j].x
          BY <2>3, <2>5 DEF Ordered
        <4>2. \A i, j \in DOMAIN rxq' : i < j => i + 1 < j + 1
          BY <1>3, SMTT(60)
        <4> QED
          BY <1>2, <2>1, <4>1, <4>2
      <3> QED
        BY <1>1, <2>3, <2>5, <3>1, <3>2, <3>3 DEF Ordered
    <2> QED
      BY <2>4, <2>5
  <1> QED
    BY <1>4, <1>5, <1>6, <1>7, <1>8, <1>9 DEF NetInv

-----------------------------------------------------------------------------
(* A download *)

\* The head of the ring is of the job when its host and port say so, and a
\* segment of the job has its host and port and finds the connection made.
LEMMA HeadIsOwn ==
    ASSUME NetInv, job.kind = "tcp", 1 \in DOMAIN rxq
    PROVE  /\ rxq[1].p = "tcp" /\ rxq[1].port = job.key => rxq[1].of = job.id
           /\ Mine(1) => /\ rxq[1].p = "tcp" /\ rxq[1].from = job.host /\ rxq[1].port = job.key
                         /\ job.state = 1
  <1>1. MsgOK(rxq[1].p, rxq[1].port, rxq[1].of, rxq[1].from)
    BY DEF NetInv, OwnMessages
  <1>2. Segment(rxq[1]) => SegOK(rxq[1].port, rxq[1].of, rxq[1].from)
    BY DEF NetInv, OwnSegments
  <1>3. job # NoJob
    BY JobKinds DEF NetInv
  <1> QED
    BY <1>1, <1>2, <1>3 DEF MsgOK, SegOK, Connected, Mine, Segment

\* If the segments came in order then the head of the ring is the next one.
LEMMA HeadIsNext ==
    ASSUME NetInv, job.kind = "tcp", 1 \in DOMAIN rxq, Mine(1), job.id \notin spoilt
    PROVE  rxq[1].x = Len(job.rx) + 1 /\ rxq[1].x <= seen[job.id]
  <1>1. /\ rxq \in Seq(FrameT) /\ job.rx \in Seq(Part) /\ Len(job.rx) \in Nat
        /\ seen[job.id] \in Nat
    BY JobKinds, SMTT(60) DEF NetInv, NetTypes, TcpT
  <1>2. rxq[1].x \in (Len(job.rx) + 1)..seen[job.id]
    BY DEF NetInv, Ordered
  <1>3. PICK i \in DOMAIN rxq : Mine(i) /\ rxq[i].x = Len(job.rx) + 1
    <2>1. Len(job.rx) + 1 \in (Len(job.rx) + 1)..seen[job.id]
      BY <1>1, <1>2, SMTT(60)
    <2> QED
      BY <2>1 DEF NetInv, Ordered
  <1>4. i = 1
    <2> SUFFICES ASSUME i # 1 PROVE FALSE
      OBVIOUS
    <2>1. 1 < i
      BY <1>1, SMTT(60)
    <2>2. rxq[1].x < rxq[i].x
      BY <1>3, <2>1 DEF NetInv, Ordered
    <2> QED
      BY <1>1, <1>2, <1>3, <2>2, SMTT(60)
  <1> QED
    BY <1>1, <1>2, <1>3, <1>4, SMTT(60)

\* The payload that is taken goes to the end of what was read.
LEMMA PayloadAppended ==
    ASSUME NEW s \in Seq(Part), NEW f \in FrameT, f.x # RST
    PROVE  LET t == s \o Payload(f)
           IN  /\ t \in Seq(Part)
               /\ Len(t) = IF f.x = SYN_ACK THEN Len(s) ELSE Len(s) + 1
               /\ \A k \in 1..Len(s) : t[k] = s[k]
               /\ f.x # SYN_ACK => t[Len(s) + 1] = [of |-> f.of, n |-> f.x]
  <1>1. CASE f.x = SYN_ACK
    <2>1. s \o Payload(f) = s
      BY <1>1, SMTT(60) DEF Payload
    <2> QED
      BY <1>1, <2>1
  <1>2. CASE f.x # SYN_ACK
    <2> DEFINE part == [of |-> f.of, n |-> f.x]
    <2>1. part \in Part
      BY <1>2, SMTT(60) DEF Part, FrameT, RST
    <2> HIDE DEF part
    <2>2. s \o <<part>> = Append(s, part)
      BY <2>1, SMTT(60)
    <2>3. s \o Payload(f) = Append(s, part)
      BY <1>2, <2>2 DEF Payload, part
    <2>4. /\ Append(s, part) \in Seq(Part) /\ Len(Append(s, part)) = Len(s) + 1
          /\ \A k \in 1..Len(s) : Append(s, part)[k] = s[k]
          /\ Append(s, part)[Len(s) + 1] = part
      BY <2>1, SMTT(60)
    <2> QED
      BY <1>2, <2>3, <2>4 DEF part
  <1> QED
    BY <1>1, <1>2

\* The segment at the head of the ring is taken (the fourth case of PollTcp).
Receives ==
    /\ Takes /\ job.kind = "tcp" /\ job.state = 1
    /\ rxq[1].p = "tcp" /\ rxq[1].from = job.host /\ rxq[1].port = job.key /\ rxq[1].x # RST
    /\ job' = [job EXCEPT !.rx = job.rx \o Payload(rxq[1])] /\ UNCHANGED results
    /\ Keeps /\ UNCHANGED <<pings, reply, ports, asks, tags, reused>>

\* What was read stays in order.
LEMMA ReceiveStep ==
    ASSUME NetInv, Receives
    PROVE  NetInv'
  <1> DEFINE f == rxq[1]
  <1>t. NetTypes
    BY DEF NetInv
  <1>h. /\ 1 \in DOMAIN rxq /\ f \in FrameT
        /\ rxq' \in Seq(FrameT) /\ Len(rxq') = Len(rxq) - 1 /\ Len(rxq') <= QUEUE
        /\ \A i \in DOMAIN rxq' : i + 1 \in DOMAIN rxq /\ rxq'[i] = rxq[i + 1]
        /\ \A i \in DOMAIN rxq : i # 1 => i - 1 \in DOMAIN rxq' /\ rxq'[i - 1] = rxq[i]
    BY <1>t, TakesHead DEF Receives
  <1>j. job \in TcpT /\ job # NoJob /\ job.rx \in Seq(Part) /\ job.id \in JobIds /\ job.kind = "tcp"
    BY <1>t, JobKinds DEF TcpT, Receives
  <1>o. f.of = job.id /\ (Mine(1) <=> f.x # SYN_ACK)
    <2>1. f.of = job.id
      BY <1>h, HeadIsOwn DEF Receives
    <2> QED
      BY <1>h, <2>1, SMTT(60) DEF Mine, Segment, FrameT, SYN_ACK, RST, Receives
  <1>p. LET t == job.rx \o Payload(f)
        IN  /\ t \in Seq(Part)
            /\ Len(t) = IF f.x = SYN_ACK THEN Len(job.rx) ELSE Len(job.rx) + 1
            /\ \A k \in 1..Len(job.rx) : t[k] = job.rx[k]
            /\ f.x # SYN_ACK => t[Len(job.rx) + 1] = [of |-> f.of, n |-> f.x]
    BY <1>h, <1>j, PayloadAppended DEF Receives
  <1>J. /\ job' \in TcpT /\ job'.rx = job.rx \o Payload(f)
        /\ job'.kind = "tcp" /\ job'.id = job.id /\ job'.win = job.win /\ job'.host = job.host
        /\ job'.key = job.key /\ job'.state = 1 /\ job' # NoJob
    BY <1>j, <1>p DEF TcpT, NoJob, Receives
  <1>x. /\ DOMAIN job.rx = 1..Len(job.rx) /\ DOMAIN job'.rx = 1..Len(job'.rx)
        /\ Len(job'.rx) = IF Mine(1) THEN Len(job.rx) + 1 ELSE Len(job.rx)
        /\ \A k \in 1..Len(job.rx) : job'.rx[k] = job.rx[k]
        /\ Mine(1) => job'.rx[Len(job.rx) + 1].of = job.id /\ job'.rx[Len(job.rx) + 1].n = f.x
    BY <1>j, <1>o, <1>p, <1>J, SMTT(60) DEF TcpT
  <1>1. /\ results' = results
        /\ nic' = nic /\ wire' = wire /\ came' = came /\ issuer' = issuer /\ seen' = seen
        /\ spoilt' = spoilt /\ pings' = pings /\ ports' = ports /\ asks' = asks /\ tags' = tags
        /\ reused' = reused /\ reply' = reply
    BY DEF Keeps, Receives
  <1>3. DOMAIN rxq \subseteq Int /\ DOMAIN rxq' \subseteq Int
    BY <1>t, <1>h, SMTT(60) DEF NetTypes
  <1>4. NetTypes'
    BY <1>t, <1>1, <1>h, <1>J, SMTT(60) DEF NetTypes
  <1>5. OneEach'
    BY <1>1, <1>j, <1>J DEF NetInv, OneEach
  <1>6. OwnMessages'
    <2>1. \A p, key, o, h : MsgOK(p, key, o, h) => MsgOK(p, key, o, h)'
      BY <1>j, <1>1, <1>J, SMTT(60) DEF MsgOK
    <2>2. OwnMessages
      BY DEF NetInv
    <2>3. \A i \in DOMAIN rxq' : MsgOK(rxq[i + 1].p, rxq[i + 1].port, rxq[i + 1].of, rxq[i + 1].from)
      BY <1>h, <2>2 DEF OwnMessages
    <2> QED
      BY <1>1, <1>h, <1>j, <1>J, <2>1, <2>2, <2>3 DEF OwnMessages
  <1>7. AnswersItsOwn' /\ BodyIsTheReply'
    BY <1>1, SMTT(60) DEF NetInv, AnswersItsOwn, BodyIsTheReply
  <1>8. OwnSegments'
    <2>1. OwnSegments
      BY DEF NetInv
    <2>2. \A key, o, h : SegOK(key, o, h) => SegOK(key, o, h)'
      BY <1>1, <1>J, <1>j DEF SegOK, Connected
    <2>3. \A i \in DOMAIN rxq' : Segment(rxq[i + 1]) => SegOK(rxq[i + 1].port, rxq[i + 1].of, rxq[i + 1].from)
      BY <1>h, <2>1 DEF OwnSegments
    <2>4. \A i : Connected(i) => Connected(i)'
      BY <1>1, <1>J, <1>j DEF Connected
    <2> QED
      BY <1>1, <1>h, <2>1, <2>2, <2>3, <2>4 DEF OwnSegments, Segment
  <1>9. Ordered'
    <2>1. \A i \in DOMAIN rxq' : Mine(i)' <=> Mine(i + 1)
      BY <1>J, <1>h DEF Mine, Segment
    <2>2. \A i \in DOMAIN rxq : i # 1 /\ Mine(i) => i - 1 \in DOMAIN rxq' /\ Mine(i - 1)'
      BY <1>J, <1>h DEF Mine, Segment
    <2>3. Ordered
      BY DEF NetInv
    <2> DEFINE n == Len(job.rx)
    <2>n. n \in Nat /\ seen[job.id] \in Nat
      BY <1>j, <1>t, SMTT(60) DEF NetTypes
    <2>o. \A k \in DOMAIN job'.rx : job'.rx[k].of = job.id
      BY <1>j, <1>x, <2>n, <2>3, SMTT(60) DEF Ordered
    <2>k. job'.id = job.id /\ job'.state # 0 /\ spoilt' = spoilt /\ seen' = seen
      BY <1>1, <1>J, SMTT(60)
    <2>4. CASE job.id \in spoilt
      BY <2>k, <2>o, <2>4 DEF Ordered
    <2>5. CASE job.id \notin spoilt
      <3>1. Len(job'.rx) = IF Mine(1) THEN n + 1 ELSE n
        BY <1>x
      <3>2. Mine(1) => f.x = n + 1 /\ n + 1 <= seen[job.id]
        BY <1>h, <1>j, <2>5, HeadIsNext
      <3>3. \A k \in DOMAIN job'.rx : job'.rx[k].n = k
        BY <1>j, <1>x, <2>n, <2>3, <2>5, <3>2, SMTT(60) DEF Ordered
      <3>4. Len(job'.rx) <= seen[job.id]
        BY <1>j, <2>n, <2>3, <2>5, <3>1, <3>2 DEF Ordered
      <3>5. \A i \in DOMAIN rxq' : Mine(i)' => rxq'[i].x \in (Len(job'.rx) + 1)..seen[job.id]
        <4> SUFFICES ASSUME NEW i \in DOMAIN rxq', Mine(i)'
                     PROVE  rxq'[i].x \in (Len(job'.rx) + 1)..seen[job.id]
          OBVIOUS
        <4>1. i + 1 \in DOMAIN rxq /\ Mine(i + 1) /\ rxq'[i].x = rxq[i + 1].x
          BY <1>h, <2>1
        <4>2. rxq[i + 1].x \in (n + 1)..seen[job.id]
          BY <1>j, <2>3, <2>5, <4>1 DEF Ordered
        <4>3. Mine(1) => rxq[1].x < rxq[i + 1].x
          <5>1. 1 < i + 1
            BY <1>h, SMTT(60)
          <5> QED
            BY <1>j, <1>h, <2>3, <2>5, <4>1, <5>1 DEF Ordered
        <4> QED
          BY <2>n, <3>1, <3>2, <4>1, <4>2, <4>3, SMTT(60)
      <3>6. \A x \in (Len(job'.rx) + 1)..seen[job.id] : \E i \in DOMAIN rxq' : Mine(i)' /\ rxq'[i].x = x
        <4> SUFFICES ASSUME NEW x \in (Len(job'.rx) + 1)..seen[job.id]
                     PROVE  \E i \in DOMAIN rxq' : Mine(i)' /\ rxq'[i].x = x
          OBVIOUS
        <4>1. x \in (n + 1)..seen[job.id] /\ (Mine(1) => x # n + 1)
          BY <2>n, <3>1, SMTT(60)
        <4>2. PICK i \in DOMAIN rxq : Mine(i) /\ rxq[i].x = x
          BY <1>j, <2>3, <2>5, <4>1 DEF Ordered
        <4>3. i # 1
          BY <3>2, <4>1, <4>2
        <4> QED
          BY <1>h, <2>2, <4>2, <4>3
      <3>7. \A i, j \in DOMAIN rxq' : Mine(i)' /\ Mine(j)' /\ i < j => rxq'[i].x < rxq'[j].x
        <4>1. \A i, j \in DOMAIN rxq : Mine(i) /\ Mine(j) /\ i < j => rxq[i].x < rxq[j].x
          BY <1>j, <2>3, <2>5 DEF Ordered
        <4>2. \A i, j \in DOMAIN rxq' : i < j => i + 1 < j + 1
          BY <1>3, SMTT(60)
        <4> QED
          BY <1>h, <2>1, <4>1, <4>2
      <3> QED
        BY <2>k, <2>o, <2>5, <3>3, <3>4, <3>5, <3>6, <3>7 DEF Ordered
    <2> QED
      BY <2>4, <2>5
  <1> QED
    BY <1>4, <1>5, <1>6, <1>7, <1>8, <1>9 DEF NetInv

\* The connection is made (the third case of PollTcp).
Connects ==
    /\ Takes /\ job.kind = "tcp" /\ job.state = 0
    /\ job' = [job EXCEPT !.state = 1] /\ UNCHANGED results
    /\ Sends({[p |-> "get", to |-> job.host, key |-> job.key, of |-> job.id]})
    /\ Keeps /\ UNCHANGED <<pings, reply, ports, tags, reused>>

\* Nothing of the reply can have come before it is asked for.
LEMMA ConnectStep ==
    ASSUME NetInv, Connects
    PROVE  NetInv'
  <1> DEFINE g == [p |-> "get", to |-> job.host, key |-> job.key, of |-> job.id]
  <1>t. NetTypes
    BY DEF NetInv
  <1>h. /\ rxq' \in Seq(FrameT) /\ Len(rxq') <= QUEUE
        /\ \A i \in DOMAIN rxq' : \E j \in DOMAIN rxq : rxq'[i] = rxq[j]
    BY <1>t, TakesHead DEF Connects
  <1>j. /\ job \in TcpT /\ job # NoJob /\ job.rx \in Seq(Part) /\ job.id \in JobIds
        /\ job.kind = "tcp" /\ job.state = 0 /\ job.key \in Key /\ job.host \in Hosts
    BY <1>t, JobKinds DEF TcpT, Connects
  <1>J. /\ job' \in TcpT /\ job'.rx = job.rx
        /\ job'.kind = "tcp" /\ job'.id = job.id /\ job'.win = job.win /\ job'.host = job.host
        /\ job'.key = job.key /\ job'.state = 1 /\ job' # NoJob
    BY <1>j DEF TcpT, NoJob, Connects
  <1>g. g \in AskT /\ g.p = "get" /\ g.to = job.host /\ g.key = job.key /\ g.of = job.id
    BY <1>j DEF AskT
  <1>1. /\ results' = results /\ asks' \subseteq asks \cup {g}
        /\ nic' = nic /\ wire' = wire /\ came' = came /\ issuer' = issuer /\ seen' = seen
        /\ spoilt' = spoilt /\ pings' = pings /\ ports' = ports /\ tags' = tags
        /\ reused' = reused /\ reply' = reply
    BY DEF Keeps, Connects, Sends
  <1> HIDE DEF g
  <1>4. NetTypes'
    BY <1>t, <1>1, <1>g, <1>h, <1>j, <1>J DEF NetTypes
  <1>5. OneEach'
    BY <1>1, <1>j, <1>J DEF NetInv, OneEach
  <1>6. OwnMessages'
    <2>1. \A p, key, o, h : MsgOK(p, key, o, h) => MsgOK(p, key, o, h)'
      BY <1>1, <1>j, <1>J, SMTT(60) DEF MsgOK
    <2>2. OwnMessages
      BY DEF NetInv
    <2>3. MsgOK(g.p, g.key, g.of, g.to)
      <3>1. job.id \in 1..Len(issuer)
        BY <1>j, <1>t, SMTT(60) DEF NetInv, OneEach, NetTypes, JobIds
      <3> QED
        BY <1>g, <1>j, <2>2, <3>1 DEF MsgOK, OwnMessages
    <2> QED
      BY <1>1, <1>h, <1>j, <1>J, <2>1, <2>2, <2>3 DEF OwnMessages
  <1>7. AnswersItsOwn' /\ BodyIsTheReply'
    BY <1>1, SMTT(60) DEF NetInv, AnswersItsOwn, BodyIsTheReply
  <1>c. ~Connected(job.id)
    BY <1>j, SMTT(60) DEF Connected
  <1>8. OwnSegments'
    <2>1. OwnSegments
      BY DEF NetInv
    <2>2. \A key, o, h : SegOK(key, o, h) => SegOK(key, o, h)'
      BY <1>1, <1>J, <1>j DEF SegOK, Connected
    <2>3. \A q \in asks' : q = g => SegOK(q.key, q.of, q.to)'
      BY <1>g, <1>J DEF SegOK, Connected
    <2>4. \A i : Connected(i) => Connected(i)'
      BY <1>1, <1>J, <1>j DEF Connected
    <2>5. \A q \in asks' : q.p = "get" => SegOK(q.key, q.of, q.to)'
      BY <1>1, <2>1, <2>2, <2>3 DEF OwnSegments
    <2> QED
      BY <1>1, <1>h, <2>1, <2>2, <2>4, <2>5 DEF OwnSegments, Segment
  <1>9. Ordered'
    <2>1. \A i \in DOMAIN rxq' : ~Mine(i)'
      BY <1>h, <1>J, <1>c DEF NetInv, OwnSegments, SegOK, Mine, Segment
    <2>2. seen[job.id] = 0
      BY <1>c, <1>j, <1>t, SMTT(60) DEF NetInv, OwnSegments, NetTypes
    <2>3. job.rx = <<>>
      BY <1>j DEF NetInv, Ordered
    <2> QED
      BY <1>1, <1>J, <2>1, <2>2, <2>3, SMTT(60) DEF Ordered
  <1> QED
    BY <1>4, <1>5, <1>6, <1>7, <1>8, <1>9 DEF NetInv

-----------------------------------------------------------------------------
(* A job begins: at a command, or when a name has been resolved *)

Fresh(id, w, h) ==
    /\ \/ /\ job = NoJob /\ Len(issuer) < JOBS /\ id = Len(issuer) + 1
          /\ issuer' = Append(issuer, [win |-> w, host |-> h]) /\ rxq' = rxq
       \/ /\ job.kind = "resolve" /\ Takes /\ id = job.id /\ w = job.win
          /\ h = issuer[id].host \/ id \in reused
          /\ issuer' = issuer
    /\ w \in Windows /\ h \in Hosts
    /\ UNCHANGED <<nic, wire, came, results, seen, spoilt>>

\* The number of the job is new to every message that can be on its way for a
\* connection, and its port is there to be taken.
LEMMA FreshFacts ==
    ASSUME NetInv, NEW id, NEW w, NEW h, Fresh(id, w, h)
    PROVE  /\ issuer' \in Seq([win : Windows, host : Hosts]) /\ Len(issuer') <= JOBS
           /\ id = Len(issuer') /\ id \in JobIds /\ issuer'[id].win = w
           /\ h = issuer'[id].host \/ id \in reused
           /\ Len(issuer) <= Len(issuer') /\ Len(issuer) \in Nat
           /\ \A i \in 1..Len(issuer) : i \in 1..Len(issuer') /\ issuer'[i] = issuer[i]
           /\ Len(results) = Len(issuer') - 1 /\ Len(results) <= Len(issuer)
           /\ ports < Len(issuer')
           /\ \A o \in 1..Len(issuer) : Connected(o) => o # id
           /\ rxq' \in Seq(FrameT) /\ Len(rxq') <= QUEUE
           /\ \A i \in DOMAIN rxq' : \E j \in DOMAIN rxq : rxq'[i] = rxq[j]
  <1>t. NetTypes /\ OneEach
    BY DEF NetInv
  <1>n. NoJob.kind = "none"
    BY DEF NoJob
  <1>l. /\ Len(issuer) \in Nat /\ DOMAIN issuer = 1..Len(issuer) /\ Len(issuer) <= JOBS
        /\ issuer \in Seq([win : Windows, host : Hosts]) /\ JOBS \in Nat
    BY <1>t, JobsFinite, SMTT(60) DEF NetTypes
  <1>1. CASE job = NoJob /\ Len(issuer) < JOBS /\ id = Len(issuer) + 1
             /\ issuer' = Append(issuer, [win |-> w, host |-> h]) /\ rxq' = rxq
    <2>1. [win |-> w, host |-> h] \in [win : Windows, host : Hosts]
      BY DEF Fresh
    <2> DEFINE e == [win |-> w, host |-> h]
    <2>2. e.win = w /\ e.host = h
      OBVIOUS
    <2> HIDE DEF e
    <2>3. /\ issuer' \in Seq([win : Windows, host : Hosts]) /\ Len(issuer') = Len(issuer) + 1
          /\ issuer'[Len(issuer) + 1] = e
          /\ \A i \in 1..Len(issuer) : issuer'[i] = issuer[i]
      BY <1>1, <1>l, <2>1, SMTT(60) DEF e
    <2>4. Len(results) = Len(issuer) /\ ports <= Len(issuer) /\ ports \in Nat
      BY <1>t, <1>1, <1>n, SMTT(60) DEF OneEach, NetTypes
    <2>5. /\ rxq' \in Seq(FrameT) /\ Len(rxq') <= QUEUE
          /\ \A i \in DOMAIN rxq' : \E j \in DOMAIN rxq : rxq'[i] = rxq[j]
      BY <1>t, <1>1 DEF NetTypes
    <2> QED
      BY <1>1, <1>l, <2>2, <2>3, <2>4, <2>5, SMTT(60) DEF JobIds
  <1>2. CASE job.kind = "resolve" /\ Takes /\ id = job.id /\ w = job.win
             /\ (h = issuer[id].host \/ id \in reused) /\ issuer' = issuer
    <2>1. job # NoJob
      BY <1>2, <1>n
    <2>2. id = Len(issuer) /\ w = issuer[id].win /\ Len(results) = Len(issuer) - 1
      BY <1>2, <1>t, <2>1 DEF OneEach
    <2>3. id \in JobIds
      BY <1>t, <1>2, <2>1, JobKinds
    <2>4. ports + 1 <= Len(issuer) /\ ports \in Nat
      BY <1>t, <1>2 DEF NetTypes
    <2>5. ~Connected(id)
      BY <1>2, <2>1 DEF Connected
    <2>6. /\ rxq' \in Seq(FrameT) /\ Len(rxq') <= QUEUE
          /\ \A i \in DOMAIN rxq' : \E j \in DOMAIN rxq : rxq'[i] = rxq[j]
      BY <1>t, <1>2, TakesHead
    <2> QED
      BY <1>2, <1>l, <2>2, <2>3, <2>4, <2>5, <2>6, SMTT(60)
  <1> QED
    BY <1>1, <1>2 DEF Fresh

\* A job whose question is numbered so that no earlier message fits it.
LEMMA BuildStep ==
    ASSUME NetInv, NEW id, NEW w, NEW h, Fresh(id, w, h), NEW q \in AskT,
           job' \in PingT \cup UdpT \cup ResolveT \cup TcpT,
           job'.id = id, job'.win = w, job'.host = h,
           job'.kind = "tcp" => job'.state = 0 /\ job'.rx = <<>>,
           asks' \subseteq asks \cup {q}, q.p # "get",
           pings' \in Nat, ports' \in Nat, pings' <= Len(issuer'),
           ports' + (IF job'.kind = "resolve" THEN 1 ELSE 0) <= Len(issuer'),
           reply' \in Nobody..(pings' - 1), tags' \subseteq TAGS,
           reused \subseteq reused', reused' \subseteq JobIds,
           \A p, key, o, x : MsgOK(p, key, o, x) => MsgOK(p, key, o, x)',
           MsgOK(q.p, q.key, q.of, q.to)',
           job'.kind = "ping" => job'.key \in 0..(pings' - 1) /\ reply' # job'.key,
           job'.kind = "tcp" => job'.key \in 0..(ports' - 1),
           job'.kind \in {"resolve", "udp"} => job'.key \in tags'
    PROVE  NetInv'
  <1>t. NetTypes
    BY DEF NetInv
  <1>f. /\ issuer' \in Seq([win : Windows, host : Hosts]) /\ Len(issuer') <= JOBS
        /\ id = Len(issuer') /\ id \in JobIds /\ issuer'[id].win = w
        /\ h = issuer'[id].host \/ id \in reused
        /\ Len(issuer) <= Len(issuer') /\ Len(issuer) \in Nat
        /\ \A i \in 1..Len(issuer) : i \in 1..Len(issuer') /\ issuer'[i] = issuer[i]
        /\ Len(results) = Len(issuer') - 1 /\ Len(results) <= Len(issuer)
        /\ \A o \in 1..Len(issuer) : Connected(o) => o # id
        /\ rxq' \in Seq(FrameT) /\ Len(rxq') <= QUEUE
        /\ \A i \in DOMAIN rxq' : \E j \in DOMAIN rxq : rxq'[i] = rxq[j]
    BY FreshFacts
  <1>1. nic' = nic /\ wire' = wire /\ came' = came /\ results' = results /\ seen' = seen
        /\ spoilt' = spoilt
    BY DEF Fresh
  <1>j. job' # NoJob
    BY SMTT(60) DEF NoJob, PingT, UdpT, ResolveT, TcpT
  <1>2. NetTypes'
    BY <1>t, <1>f, <1>1 DEF NetTypes
  <1>r. \A i \in DOMAIN results : i \in 1..Len(issuer) /\ results[i].id = i
    BY <1>t, <1>f, SMTT(60) DEF NetInv, OneEach, NetTypes
  <1>3. OneEach'
    BY <1>f, <1>1, <1>j, <1>r DEF NetInv, OneEach
  <1>4. OwnMessages'
    <2>1. OwnMessages
      BY DEF NetInv
    <2> QED
      BY <1>1, <1>f, <1>j, <2>1 DEF OwnMessages
  <1>5. AnswersItsOwn'
    BY <1>f, <1>1, <1>r, SMTT(60) DEF NetInv, AnswersItsOwn
  <1>6. BodyIsTheReply'
    BY <1>1, SMTT(60) DEF NetInv, BodyIsTheReply
  <1>7. \A key, o, x : o \in 1..Len(issuer) /\ SegOK(key, o, x) => o # id /\ SegOK(key, o, x)'
    BY <1>f DEF SegOK, Connected
  <1>8. \A i \in DOMAIN rxq : rxq[i].of \in 1..Len(issuer)
    BY DEF NetInv, OwnMessages, MsgOK
  <1>9. \A i \in JobIds : seen[i] > 0 => i \in 1..Len(issuer) /\ i # id /\ Connected(i)'
    BY <1>f, SMTT(60) DEF NetInv, OwnSegments, Connected, JobIds
  <1>10. OwnSegments'
    <2>1. \A f \in asks : f.of \in 1..Len(issuer)
      BY DEF NetInv, OwnMessages, MsgOK
    <2>2. \A f \in wire : f.of \in 1..Len(issuer)
      BY DEF NetInv, OwnMessages, MsgOK
    <2>3. \A f \in asks' : f.p = "get" => SegOK(f.key, f.of, f.to)'
      BY <1>7, <2>1 DEF NetInv, OwnSegments
    <2>4. \A f \in wire' : Segment(f) => SegOK(f.port, f.of, f.from)'
      BY <1>1, <1>7, <2>2 DEF NetInv, OwnSegments
    <2>5. \A i \in DOMAIN rxq' : Segment(rxq'[i]) => SegOK(rxq[i].port, rxq[i].of, rxq[i].from)'
      BY <1>f, <1>7, <1>8, SMTT(60) DEF NetInv, OwnSegments, Segment
    <2> QED
      BY <1>1, <1>f, <1>9, <2>3, <2>4, <2>5, SMTT(60) DEF OwnSegments, Segment
  <1>11. Ordered'
    <2>1. \A i \in DOMAIN rxq' : ~Mine(i)'
      BY <1>f, <1>7, <1>8, SMTT(60) DEF NetInv, OwnSegments, Mine, Segment
    <2>2. seen[id] = 0
      BY <1>t, <1>f, <1>9, SMTT(60) DEF NetTypes
    <2> QED
      BY <1>1, <2>1, <2>2, SMTT(60) DEF Ordered
  <1> QED
    BY <1>2, <1>3, <1>4, <1>5, <1>6, <1>10, <1>11 DEF NetInv

\* Echo numbers are counted: no earlier echo has this one's.
LEMMA PingStep ==
    ASSUME NetInv, NEW w \in Windows, NEW h \in Hosts, start_ping(w, h)
    PROVE  NetInv'
  <1>t. NetTypes /\ NoJob.kind = "none"
    BY DEF NetInv, NoJob
  <1>s. /\ job = NoJob /\ Len(issuer) < JOBS /\ Id = Len(issuer) + 1
        /\ issuer' = Append(issuer, [win |-> w, host |-> h])
        /\ nic' = nic /\ rxq' = rxq /\ wire' = wire /\ came' = came /\ results' = results
        /\ seen' = seen /\ spoilt' = spoilt /\ pings' = pings + 1 /\ reply' = Nobody
        /\ ports' = ports /\ tags' = tags /\ reused' = reused
    BY DEF start_ping, Starts, job_in_progress, Id
  <1>f. Fresh(Id, w, h)
    BY <1>s DEF Fresh
  <1>i. /\ Id \in JobIds /\ Id = Len(issuer') /\ Len(issuer) <= Len(issuer')
        /\ \A i \in 1..Len(issuer) : i \in 1..Len(issuer') /\ issuer'[i] = issuer[i]
        /\ h = issuer'[Id].host \/ Id \in reused
    BY <1>f, FreshFacts
  <1>p. ping_seq = pings /\ pings \in Nat /\ pings <= Len(issuer) /\ ports \in Nat /\ Len(issuer) \in Nat
        /\ ports <= Len(issuer)
    <2>1. pings \in Nat /\ pings <= Len(issuer) /\ ports \in Nat /\ Len(issuer) \in Nat /\ JOBS \in Nat
          /\ ports <= Len(issuer)
      BY <1>s, <1>t, JobsFinite, SMTT(60) DEF NetTypes
    <2>2. pings < JOBS
      BY <1>s, <2>1, SMTT(60)
    <2> QED
      BY <2>1, <2>2, Counters DEF ping_seq
  <1>q. PICK q \in AskT : q = [p |-> "ping", to |-> h, key |-> pings, of |-> Id]
    BY <1>i, <1>p DEF AskT, Key
  <1>a. asks' \subseteq asks \cup {q}
    BY <1>p, <1>q DEF start_ping, Sends
  <1>j. job' = [kind |-> "ping", id |-> Id, win |-> w, host |-> h, key |-> pings]
    BY <1>p DEF start_ping
  <1>J. /\ job' \in PingT /\ job'.kind = "ping" /\ job'.id = Id /\ job'.win = w /\ job'.host = h
        /\ job'.key = pings
    BY <1>i, <1>p, <1>j DEF PingT, Key
  <1>r. reply' \in Nobody..(pings' - 1) /\ reply' # pings /\ pings \in 0..(pings' - 1)
    BY <1>s, <1>p, SMTT(60) DEF Nobody
  <1>1. \A p, key, o, x : MsgOK(p, key, o, x) => MsgOK(p, key, o, x)'
    BY <1>s, <1>t, <1>i, <1>p, <1>J, SMTT(60) DEF MsgOK
  <1>2. MsgOK(q.p, q.key, q.of, q.to)'
    BY <1>s, <1>i, <1>p, <1>q, <1>J, SMTT(60) DEF MsgOK
  <1>3. /\ pings' \in Nat /\ pings' <= Len(issuer') /\ ports' \in Nat
        /\ ports' + (IF job'.kind = "resolve" THEN 1 ELSE 0) <= Len(issuer')
    BY <1>s, <1>i, <1>p, <1>J, SMTT(60)
  <1>4. tags' \subseteq TAGS /\ reused \subseteq reused' /\ reused' \subseteq JobIds
    BY <1>s, <1>t DEF NetTypes
  <1>5. q.p # "get"
    BY <1>q
  <1>6. job' \in PingT \cup UdpT \cup ResolveT \cup TcpT
    BY <1>J
  <1> QED
    BY <1>f, <1>a, <1>J, <1>r, <1>1, <1>2, <1>3, <1>4, <1>5, <1>6, BuildStep

\* Ports are counted, too.
LEMMA TcpStep ==
    ASSUME NetInv, NEW id, NEW w, NEW h, Fresh(id, w, h), build_tcp_job(id, w, h),
           UNCHANGED <<pings, reply>>
    PROVE  NetInv'
  <1>t. NetTypes
    BY DEF NetInv
  <1>i. /\ id \in JobIds /\ id = Len(issuer') /\ Len(issuer) <= Len(issuer') /\ Len(issuer') <= JOBS
        /\ issuer' \in Seq([win : Windows, host : Hosts]) /\ Len(issuer) \in Nat
        /\ \A i \in 1..Len(issuer) : i \in 1..Len(issuer') /\ issuer'[i] = issuer[i]
        /\ h = issuer'[id].host \/ id \in reused
        /\ ports < Len(issuer')
    BY FreshFacts
  <1>w. w \in Windows /\ h \in Hosts
    BY DEF Fresh
  <1>p. /\ next_src_port = ports /\ ports \in Nat /\ pings \in Nat /\ pings <= Len(issuer)
        /\ reply \in Nobody..(pings - 1) /\ Len(issuer') \in Nat
    <2>1. /\ ports \in Nat /\ pings \in Nat /\ pings <= Len(issuer) /\ reply \in Nobody..(pings - 1)
          /\ Len(issuer') \in Nat
      BY <1>t, <1>i, SMTT(60) DEF NetTypes
    <2>2. ports < JOBS
      BY <1>i, <2>1, JobsFinite, SMTT(60)
    <2> QED
      BY <2>1, <2>2, Counters DEF next_src_port
  <1>s. /\ pings' = pings /\ reply' = reply /\ ports' = ports + 1 /\ tags' = tags /\ reused' = reused
    BY DEF build_tcp_job
  <1>q. PICK q \in AskT : q = [p |-> "syn", to |-> h, key |-> ports, of |-> id]
    BY <1>i, <1>p, <1>w DEF AskT, Key
  <1>a. asks' \subseteq asks \cup {q}
    BY <1>p, <1>q DEF build_tcp_job, Sends
  <1>j. job' = [kind |-> "tcp", id |-> id, win |-> w, host |-> h, key |-> ports, state |-> 0,
                rx |-> <<>>]
    BY <1>p DEF build_tcp_job
  <1>J. /\ job' \in TcpT /\ job'.kind = "tcp" /\ job'.id = id /\ job'.win = w /\ job'.host = h
        /\ job'.key = ports /\ job'.state = 0 /\ job'.rx = <<>>
    BY <1>i, <1>p, <1>j, <1>w, SMTT(60) DEF TcpT, Key
  <1>1. \A p, key, o, x : MsgOK(p, key, o, x) => MsgOK(p, key, o, x)'
    BY <1>s, <1>i, <1>p, <1>J, SMTT(60) DEF MsgOK
  <1>2. MsgOK(q.p, q.key, q.of, q.to)'
    BY <1>s, <1>i, <1>p, <1>q, <1>J, SMTT(60) DEF MsgOK
  <1>3. /\ pings' \in Nat /\ pings' <= Len(issuer') /\ ports' \in Nat
        /\ ports' + (IF job'.kind = "resolve" THEN 1 ELSE 0) <= Len(issuer')
        /\ reply' \in Nobody..(pings' - 1) /\ job'.key \in 0..(ports' - 1)
    BY <1>s, <1>i, <1>p, <1>J, SMTT(60)
  <1>4. tags' \subseteq TAGS /\ reused \subseteq reused' /\ reused' \subseteq JobIds
    BY <1>s, <1>t DEF NetTypes
  <1>5. q.p # "get"
    BY <1>q
  <1>6. job' \in PingT \cup UdpT \cup ResolveT \cup TcpT
    BY <1>J
  <1> QED
    BY <1>a, <1>J, <1>1, <1>2, <1>3, <1>4, <1>5, <1>6, BuildStep

\* A tag of the clock is new, or the job is one of those that reuse a tag.
LEMMA TagStep ==
    ASSUME NetInv, NEW id, NEW w, NEW h, Fresh(id, w, h), NEW t \in TAGS,
           \/ build_udp_job(id, w, h, t)
           \/ job = NoJob /\ \E next \in {"tcp", "udp"} : build_resolve_job(id, w, h, t, next),
           UNCHANGED <<pings, reply>>
    PROVE  NetInv'
  <1>t. NetTypes
    BY DEF NetInv
  <1>i. /\ id \in JobIds /\ id = Len(issuer') /\ Len(issuer) <= Len(issuer') /\ Len(issuer') <= JOBS
        /\ issuer' \in Seq([win : Windows, host : Hosts]) /\ Len(issuer) \in Nat
        /\ \A i \in 1..Len(issuer) : i \in 1..Len(issuer') /\ issuer'[i] = issuer[i]
        /\ h = issuer'[id].host \/ id \in reused
        /\ ports < Len(issuer')
    BY FreshFacts
  <1>w. w \in Windows /\ h \in Hosts
    BY DEF Fresh
  <1>p. /\ ports \in Nat /\ pings \in Nat /\ pings <= Len(issuer) /\ reply \in Nobody..(pings - 1)
        /\ Len(issuer') \in Nat
    BY <1>t, <1>i, SMTT(60) DEF NetTypes
  <1>s. /\ pings' = pings /\ reply' = reply /\ ports' = ports /\ tags' = tags \cup {t}
        /\ reused' = IF t \in tags THEN reused \cup {id} ELSE reused
    BY DEF build_udp_job, build_resolve_job, TakesTag
  <1>q. PICK q \in AskT : /\ q.p \in {"dns", "udp"} /\ q.to = h /\ q.key = t /\ q.of = id
                          /\ asks' \subseteq asks \cup {q}
    <2>1. CASE build_udp_job(id, w, h, t)
      <3>1. [p |-> "udp", to |-> h, key |-> t, of |-> id] \in AskT
        BY <1>i, <1>w DEF AskT, Key
      <3> QED
        BY <2>1, <3>1 DEF build_udp_job, Sends
    <2>2. CASE \E next \in {"tcp", "udp"} : build_resolve_job(id, w, h, t, next)
      <3>1. [p |-> "dns", to |-> h, key |-> t, of |-> id] \in AskT
        BY <1>i, <1>w DEF AskT, Key
      <3> QED
        BY <2>2, <3>1 DEF build_resolve_job, Sends
    <2> QED
      BY <2>1, <2>2
  <1>J. /\ job' \in UdpT \cup ResolveT /\ job'.kind \in {"udp", "resolve"} /\ job'.id = id
        /\ job'.win = w /\ job'.host = h /\ job'.key = t
    BY <1>i, <1>w, SMTT(60) DEF UdpT, ResolveT, Key, build_udp_job, build_resolve_job
  <1>1. \A p, key, o, x : MsgOK(p, key, o, x) => MsgOK(p, key, o, x)'
    BY <1>s, <1>i, <1>p, <1>J, SMTT(60) DEF MsgOK
  <1>2. MsgOK(q.p, q.key, q.of, q.to)'
    BY <1>s, <1>i, <1>p, <1>q, <1>J, SMTT(60) DEF MsgOK
  <1>3. /\ pings' \in Nat /\ pings' <= Len(issuer') /\ ports' \in Nat
        /\ ports' + (IF job'.kind = "resolve" THEN 1 ELSE 0) <= Len(issuer')
        /\ reply' \in Nobody..(pings' - 1)
    BY <1>s, <1>i, <1>p, <1>J, SMTT(60)
  <1>4. /\ tags' \subseteq TAGS /\ reused \subseteq reused' /\ reused' \subseteq JobIds
        /\ job'.key \in tags'
    BY <1>s, <1>t, <1>i, <1>J DEF NetTypes
  <1>5. q.p # "get"
    BY <1>q
  <1>6. job' \in PingT \cup UdpT \cup ResolveT \cup TcpT
    BY <1>J
  <1> QED
    BY <1>q, <1>J, <1>1, <1>2, <1>3, <1>4, <1>5, <1>6, BuildStep

-----------------------------------------------------------------------------
(* The hosts and the network *)

\* A host answers the job that asked, under its number.
LEMMA AnswerStep ==
    ASSUME NetInv, NEW q \in asks, NEW fs \in Answers(q), HostAnswers(q, fs)
    PROVE  NetInv'
  <1>t. NetTypes /\ q \in AskT
    BY DEF NetInv, NetTypes
  <1>1. /\ nic' = nic /\ job' = job /\ pings' = pings /\ reply' = reply /\ ports' = ports /\ rxq' = rxq
        /\ came' = came /\ issuer' = issuer /\ results' = results /\ seen' = seen
        /\ spoilt' = spoilt /\ tags' = tags /\ reused' = reused
        /\ asks' \subseteq asks /\ wire' = wire \cup fs
    BY DEF HostAnswers
  <1>a. \A f \in fs : /\ f \in FrameT /\ f.of = q.of /\ f.port = q.key /\ f.from = q.to
                      /\ \/ q.p = "ping" /\ f.p = "echo"
                         \/ q.p = "dns" /\ f.p = "dns"
                         \/ q.p = "udp" /\ f.p = "udp"
                         \/ q.p = "syn" /\ f.p = "tcp" /\ f.x \in {SYN_ACK, RST}
                         \/ q.p = "syn" /\ f.p = "unreachable"
                         \/ q.p = "get" /\ f.p = "tcp" /\ f.x \in 1..SEGS
    BY <1>t, AnswersTyped
  <1>2. NetTypes'
    BY <1>t, <1>1, <1>a DEF NetTypes
  <1>3. OneEach' /\ AnswersItsOwn' /\ BodyIsTheReply'
    BY <1>1, SMTT(60) DEF NetInv, OneEach, AnswersItsOwn, BodyIsTheReply
  <1>4. OwnMessages'
    <2>1. \A p, key, o, x : MsgOK(p, key, o, x) => MsgOK(p, key, o, x)'
      BY <1>1, SMTT(60) DEF MsgOK
    <2>2. MsgOK(q.p, q.key, q.of, q.to)
      BY DEF NetInv, OwnMessages
    <2>3. \A f \in fs : MsgOK(f.p, f.port, f.of, f.from)
      BY <1>a, <2>2 DEF MsgOK
    <2> QED
      BY <1>1, <2>1, <2>3 DEF NetInv, OwnMessages
  <1>5. OwnSegments'
    <2>1. \A key, o, x : SegOK(key, o, x) => SegOK(key, o, x)'
      BY <1>1 DEF SegOK, Connected
    <2>2. q.p = "get" => SegOK(q.key, q.of, q.to)
      BY DEF NetInv, OwnSegments
    <2>3. \A f \in fs : Segment(f) => SegOK(f.port, f.of, f.from)
      BY <1>a, <2>2, SMTT(60) DEF Segment, SYN_ACK, RST
    <2>4. \A i : Connected(i) => Connected(i)'
      BY <1>1 DEF Connected
    <2> QED
      BY <1>1, <2>1, <2>3, <2>4 DEF NetInv, OwnSegments, Segment
  <1>6. Ordered'
    BY <1>1 DEF NetInv, Ordered, Mine, Segment
  <1> QED
    BY <1>2, <1>3, <1>4, <1>5, <1>6 DEF NetInv

\* The ring takes frames in the order in which they come; a segment that is
\* not the next one, or finds the ring full, spoils its download.
LEMMA ArriveStep ==
    ASSUME NetInv, NEW f \in wire, NEW again \in BOOLEAN, Arrives(f, again)
    PROVE  NetInv'
  <1>t. NetTypes /\ f \in FrameT /\ f.of \in JobIds /\ f.x \in Int
    BY SMTT(60) DEF NetInv, NetTypes, FrameT, RST
  <1>m. MsgOK(f.p, f.port, f.of, f.from) /\ (Segment(f) => SegOK(f.port, f.of, f.from))
    BY DEF NetInv, OwnMessages, OwnSegments
  <1>1. /\ nic' = nic /\ job' = job /\ pings' = pings /\ reply' = reply /\ ports' = ports /\ asks' = asks
        /\ issuer' = issuer /\ results' = results /\ tags' = tags /\ reused' = reused
        /\ came' = came + 1 /\ wire' \subseteq wire
    BY DEF Arrives
  <1>n. \A i \in JobIds : seen[i] \in Nat
    BY <1>t DEF NetTypes
  <1>2. /\ seen' \in [JobIds -> Nat]
        /\ \A i \in JobIds : seen'[i] = IF Segment(f) /\ f.x = seen[f.of] + 1 /\ i = f.of
                                        THEN seen[i] + 1 ELSE seen[i]
    BY <1>t, <1>n, SMTT(60) DEF Arrives, Segment, NetTypes
  <1>3. /\ spoilt \subseteq spoilt' /\ spoilt' \subseteq JobIds
        /\ Segment(f) /\ f.of \notin spoilt' => f.x = seen[f.of] + 1 /\ Len(rxq) < QUEUE
    BY <1>t, NetAssumption, SMTT(60) DEF Arrives, Segment, NetTypes
  <1>4. \/ rxq' = rxq /\ Len(rxq) >= QUEUE
        \/ rxq' = Append(rxq, f) /\ Len(rxq) < QUEUE
    BY <1>t, NetAssumption, SMTT(60) DEF Arrives, NetTypes
  <1>5. /\ rxq' \in Seq(FrameT) /\ Len(rxq') <= QUEUE /\ Len(rxq) \in Nat
        /\ DOMAIN rxq = 1..Len(rxq) /\ DOMAIN rxq' = 1..Len(rxq')
        /\ \A i \in DOMAIN rxq : i \in DOMAIN rxq' /\ rxq'[i] = rxq[i]
        /\ \A i \in DOMAIN rxq' : i \in DOMAIN rxq \/ (i = Len(rxq) + 1 /\ rxq'[i] = f)
        /\ Len(rxq) < QUEUE => Len(rxq) + 1 \in DOMAIN rxq' /\ rxq'[Len(rxq) + 1] = f
    <2>0. rxq \in Seq(FrameT) /\ Len(rxq) <= QUEUE /\ QUEUE \in Nat /\ Len(rxq) \in Nat
      BY <1>t, NetAssumption, SMTT(60) DEF NetTypes
    <2>1. CASE rxq' = rxq /\ Len(rxq) >= QUEUE
      BY <2>0, <2>1, SMTT(60)
    <2>2. CASE rxq' = Append(rxq, f) /\ Len(rxq) < QUEUE
      BY <1>t, <2>0, <2>2, SMTT(60)
    <2> QED
      BY <1>4, <2>1, <2>2
  <1>6. NetTypes'
    BY <1>t, <1>1, <1>2, <1>3, <1>5, SMTT(60) DEF NetTypes
  <1>7. OneEach' /\ AnswersItsOwn'
    BY <1>1 DEF NetInv, OneEach, AnswersItsOwn
  <1>8. BodyIsTheReply'
    BY <1>1, <1>3, SMTT(60) DEF NetInv, BodyIsTheReply
  <1>9. OwnMessages'
    <2>1. \A p, key, o, x : MsgOK(p, key, o, x) => MsgOK(p, key, o, x)'
      BY <1>1, SMTT(60) DEF MsgOK
    <2> QED
      BY <1>1, <1>5, <1>m, <2>1 DEF NetInv, OwnMessages
  <1>10. OwnSegments'
    <2>1. \A key, o, x : SegOK(key, o, x) => SegOK(key, o, x)'
      BY <1>1 DEF SegOK, Connected
    <2>2. \A i : Connected(i) => Connected(i)'
      BY <1>1 DEF Connected
    <2>3. f.of \in 1..Len(issuer)
      BY <1>m DEF MsgOK
    <2>4. Len(issuer) \in Nat
      BY <1>t, SMTT(60) DEF NetTypes
    <2>5. \A i \in JobIds : seen'[i] > 0 => i <= Len(issuer)' /\ Connected(i)'
      BY <1>1, <1>2, <1>m, <2>2, <2>3, <2>4, SMTT(60) DEF NetInv, OwnSegments, SegOK
    <2>6. \A i \in DOMAIN rxq' : Segment(rxq'[i]) => SegOK(rxq[i].port, rxq[i].of, rxq[i].from)'
      BY <1>5, <1>m, <2>1 DEF NetInv, OwnSegments, Segment
    <2> QED
      BY <1>1, <2>1, <2>5, <2>6 DEF NetInv, OwnSegments, Segment
  <1>11. Ordered'
    <2> SUFFICES ASSUME job.kind = "tcp" PROVE Ordered'
      BY <1>1 DEF Ordered
    <2>0. Ordered
      BY DEF NetInv
    <2>j. job.rx \in Seq(Part) /\ Len(job.rx) \in Nat /\ job.id \in JobIds /\ seen[job.id] \in Nat
      BY <1>t, <1>n, JobKinds, SMTT(60) DEF TcpT, NoJob
    <2>1. CASE job.id \in spoilt'
      BY <1>1, <2>0, <2>1 DEF Ordered
    <2>2. CASE job.id \notin spoilt'
      <3> DEFINE n == Len(job.rx)
                 new == Segment(f) /\ f.of = job.id
      <3>0. job.id \notin spoilt
        BY <1>3, <2>2
      <3>1. seen'[job.id] = IF new THEN seen[job.id] + 1 ELSE seen[job.id]
        BY <1>2, <1>3, <2>j, <2>2
      <3>2. new => f.x = seen[job.id] + 1 /\ Len(rxq) < QUEUE
        BY <1>3, <2>2
      <3>3. \A i \in DOMAIN rxq : Mine(i)' <=> Mine(i)
        BY <1>1, <1>5 DEF Mine, Segment
      <3>4. \A i \in DOMAIN rxq' : Mine(i)' => \/ Mine(i) /\ i \in DOMAIN rxq
                                               \/ new /\ i = Len(rxq) + 1 /\ rxq'[i] = f
        BY <1>1, <1>5 DEF Mine, Segment
      <3>5. new => \E i \in DOMAIN rxq' : Mine(i)' /\ rxq'[i] = f
        BY <1>1, <1>5, <3>2 DEF Mine, Segment
      <3> HIDE DEF new
      <3>6. /\ \A k \in DOMAIN job.rx : job.rx[k].n = k
            /\ n <= seen[job.id]
            /\ \A i \in DOMAIN rxq : Mine(i) => rxq[i].x \in (n + 1)..seen[job.id]
            /\ \A x \in (n + 1)..seen[job.id] : \E i \in DOMAIN rxq : Mine(i) /\ rxq[i].x = x
            /\ \A i, j \in DOMAIN rxq : Mine(i) /\ Mine(j) /\ i < j => rxq[i].x < rxq[j].x
        BY <2>0, <3>0 DEF Ordered
      <3>7. n <= seen'[job.id]
        BY <2>j, <3>1, <3>6, SMTT(60)
      <3>8. \A i \in DOMAIN rxq' : Mine(i)' => rxq'[i].x \in (n + 1)..seen'[job.id]
        BY <1>5, <1>t, <2>j, <3>1, <3>2, <3>4, <3>6, SMTT(60)
      <3>9. \A x \in (n + 1)..seen'[job.id] : \E i \in DOMAIN rxq' : Mine(i)' /\ rxq'[i].x = x
        <4> SUFFICES ASSUME NEW x \in (n + 1)..seen'[job.id]
                     PROVE  \E i \in DOMAIN rxq' : Mine(i)' /\ rxq'[i].x = x
          OBVIOUS
        <4>1. x \in (n + 1)..seen[job.id] \/ (new /\ x = f.x)
          BY <2>j, <3>1, <3>2, SMTT(60)
        <4>2. CASE x \in (n + 1)..seen[job.id]
          BY <1>5, <3>3, <3>6, <4>2
        <4>3. CASE new /\ x = f.x
          BY <3>5, <4>3
        <4> QED
          BY <4>1, <4>2, <4>3
      <3>10. \A i, j \in DOMAIN rxq' : Mine(i)' /\ Mine(j)' /\ i < j => rxq'[i].x < rxq'[j].x
        BY <1>5, <1>t, <2>j, <3>1, <3>2, <3>4, <3>6, SMTT(60)
      <3> QED
        BY <1>1, <2>0, <2>2, <3>6, <3>7, <3>8, <3>9, <3>10 DEF Ordered
    <2> QED
      BY <2>1, <2>2
  <1> QED
    BY <1>6, <1>7, <1>8, <1>9, <1>10, <1>11 DEF NetInv

-----------------------------------------------------------------------------
(* poll *)

\* An echo is of the job whose number it carries; other frames leave PING_REPLY.
LEMMA PollPingStep ==
    ASSUME NetInv, PollPing
    PROVE  NetInv'
  <1> DEFINE f == rxq[1]
             got == IF f.p = "echo" THEN f.port ELSE reply
  <1>t. NetTypes
    BY DEF NetInv
  <1>a. /\ job.kind = "ping" /\ Takes /\ reply' = got
        /\ IF got = job.key THEN Done("ok", f.of, <<>>) ELSE Pending
        /\ Keeps /\ UNCHANGED <<pings, ports, asks, tags, reused>>
        /\ 1 \in DOMAIN rxq /\ f \in FrameT
    BY <1>t, TakesHead DEF PollPing, Takes
  <1>b. job # NoJob
    BY <1>a DEF Takes
  <1>m. MsgOK(f.p, f.port, f.of, f.from)
    BY <1>a DEF NetInv, OwnMessages
  <1>k. reply # job.key
    BY <1>a DEF NetInv, OwnMessages
  <1>r. reply' \in Nobody..(pings - 1)
    BY <1>t, <1>a, <1>m, SMTT(60) DEF MsgOK, NetTypes, Nobody
  <1>1. CASE got = job.key
    <2>1. PICK o \in JobIds : o = f.of /\ o = job.id
      BY <1>1, <1>a, <1>k, <1>m DEF MsgOK, FrameT
    <2>2. Done("ok", o, <<>>) /\ <<>> \in Seq(Part)
      BY <1>1, <1>a, <2>1, SMTT(60)
    <2> QED
      BY <1>a, <1>b, <1>r, <2>1, <2>2, DoneStep
  <1>2. CASE got # job.key
    BY <1>2, <1>a, <1>r, PendingStep
  <1> QED
    BY <1>1, <1>2

\* An address is of the name that was asked for, unless the tag was reused.
LEMMA PollResolveStep ==
    ASSUME NetInv, NEW t \in TAGS, PollResolve(t)
    PROVE  NetInv'
  <1> DEFINE f == rxq[1]
  <1>t. NetTypes
    BY DEF NetInv
  <1>h. job.kind = "resolve" /\ Takes /\ job # NoJob
    BY DEF PollResolve, Takes
  <1>f. 1 \in DOMAIN rxq /\ f \in FrameT /\ Head(rxq) = f
    BY <1>t, <1>h, TakesHead
  <1>a. /\ IF ~IsAnswer(f) THEN Pending /\ UNCHANGED <<ports, asks, tags, reused>>
           ELSE IF f.x = 0 THEN Done("unknown", f.of, <<>>) /\ UNCHANGED <<ports, asks, tags, reused>>
           ELSE /\ IF job.next = "tcp" THEN build_tcp_job(job.id, job.win, f.from)
                   ELSE build_udp_job(job.id, job.win, f.from, t)
                /\ UNCHANGED results
        /\ Keeps /\ UNCHANGED <<pings, reply>>
    BY <1>f DEF PollResolve
  <1>m. MsgOK(f.p, f.port, f.of, f.from)
    BY <1>f DEF NetInv, OwnMessages
  <1>r. reply' \in Nobody..(pings - 1)
    BY <1>t, <1>a DEF NetTypes
  <1>o. IsAnswer(f) => f.of = job.id \/ job.id \in reused
    BY <1>h, <1>m DEF MsgOK, IsAnswer
  <1>1. CASE ~IsAnswer(f)
    BY <1>1, <1>a, <1>h, <1>r, PendingStep
  <1>2. CASE IsAnswer(f) /\ f.x = 0
    <2>1. PICK o \in JobIds : o = f.of
      BY <1>f DEF FrameT
    <2>2. Done("unknown", o, <<>>) /\ <<>> \in Seq(Part)
      BY <1>2, <1>a, <2>1, SMTT(60)
    <2> QED
      BY <1>2, <1>a, <1>h, <1>o, <1>r, <2>1, <2>2, DoneStep
  <1>3. CASE IsAnswer(f) /\ f.x # 0
    <2>1. PICK h \in Hosts : h = f.from
      BY <1>f DEF FrameT
    <2>2. PICK id \in JobIds, w \in Windows : id = job.id /\ w = job.win
      BY <1>t, <1>h, JobKinds
    <2>3. h = issuer[id].host \/ id \in reused
      BY <1>3, <1>o, <1>m, <2>1, <2>2 DEF MsgOK
    <2>4. Fresh(id, w, h)
      BY <1>3, <1>a, <1>h, <2>1, <2>2, <2>3 DEF Fresh, Keeps
    <2>5. build_tcp_job(id, w, h) \/ build_udp_job(id, w, h, t)
      BY <1>3, <1>a, <2>1, <2>2
    <2> QED
      BY <1>a, <2>4, <2>5, TcpStep, TagStep
  <1> QED
    BY <1>1, <1>2, <1>3

\* A segment of the host and port is of the job; with the last one the reply is
\* whole, if its segments came in order.
LEMMA PollTcpStep ==
    ASSUME NetInv, PollTcp
    PROVE  NetInv'
  <1> DEFINE f == rxq[1]
             mine == f.p = "tcp" /\ f.from = job.host /\ f.port = job.key
             rx == job.rx \o Payload(f)
  <1>t. NetTypes
    BY DEF NetInv
  <1>h. /\ job.kind = "tcp" /\ Takes /\ job # NoJob
        /\ Keeps /\ UNCHANGED <<pings, reply, ports, tags, reused>>
    BY DEF PollTcp, Takes
  <1>f. 1 \in DOMAIN rxq /\ f \in FrameT /\ Head(rxq) = f /\ f.of \in JobIds
    BY <1>t, <1>h, TakesHead DEF FrameT
  <1>a. \/ f.p = "unreachable" /\ Done("unreachable", f.of, <<>>) /\ UNCHANGED asks
        \/ mine /\ f.x = RST /\ Done("refused", f.of, <<>>) /\ UNCHANGED asks
        \/ /\ mine /\ f.x = SYN_ACK /\ job.state = 0
           /\ job' = [job EXCEPT !.state = 1]
           /\ Sends({[p |-> "get", to |-> job.host, key |-> job.key, of |-> job.id]})
           /\ UNCHANGED results
        \/ /\ mine /\ f.x # RST /\ job.state = 1
           /\ IF f.x = SEGS THEN Done("ok", f.of, rx)
              ELSE job' = [job EXCEPT !.rx = rx] /\ UNCHANGED results
           /\ UNCHANGED asks
        \/ /\ f.p # "unreachable" /\ (~mine \/ (job.state = 0 /\ f.x > 0))
           /\ Pending /\ UNCHANGED asks
    BY <1>f DEF PollTcp
  <1>r. reply' \in Nobody..(pings - 1) /\ reply' = reply
    BY <1>t, <1>h DEF NetTypes
  <1>o. PICK o \in JobIds : o = f.of /\ (mine => o = job.id)
    BY <1>f, <1>h, HeadIsOwn
  <1>e. <<>> \in Seq(Part)
    BY SMTT(60)
  <1>1. CASE f.p = "unreachable" /\ Done("unreachable", f.of, <<>>) /\ UNCHANGED asks
    <2>1. Done("unreachable", o, <<>>)
      BY <1>1, <1>o
    <2> QED
      BY <1>1, <1>e, <1>h, <1>r, <2>1, DoneStep
  <1>2. CASE mine /\ f.x = RST /\ Done("refused", f.of, <<>>) /\ UNCHANGED asks
    <2>1. Done("refused", o, <<>>) /\ o = job.id
      BY <1>2, <1>o
    <2> QED
      BY <1>2, <1>e, <1>h, <1>r, <2>1, DoneStep
  <1>3. CASE /\ mine /\ f.x = SYN_ACK /\ job.state = 0
             /\ job' = [job EXCEPT !.state = 1]
             /\ Sends({[p |-> "get", to |-> job.host, key |-> job.key, of |-> job.id]})
             /\ UNCHANGED results
    BY <1>3, <1>h, ConnectStep DEF Connects
  <1>4. CASE /\ mine /\ f.x # RST /\ job.state = 1 /\ f.x # SEGS
             /\ job' = [job EXCEPT !.rx = rx] /\ UNCHANGED results /\ UNCHANGED asks
    BY <1>4, <1>h, ReceiveStep DEF Receives
  <1>5. CASE mine /\ f.x # RST /\ job.state = 1 /\ f.x = SEGS /\ Done("ok", f.of, rx) /\ UNCHANGED asks
    <2>1. o = job.id /\ f.x \in Nat \ {0}
      BY <1>5, <1>o, NetAssumption
    <2>m. Mine(1) /\ f.x # SYN_ACK
      BY <1>5, <1>o, <2>1, SMTT(60) DEF Mine, Segment, SYN_ACK
    <2>s. job.rx \in Seq(Part) /\ Len(job.rx) \in Nat /\ DOMAIN job.rx = 1..Len(job.rx)
      BY <1>t, <1>h, JobKinds, SMTT(60) DEF TcpT
    <2>2. PICK body \in Seq(Part) : body = rx
      BY <1>5, <1>f, <2>s, PayloadAppended
    <2>3. /\ Len(body) = Len(job.rx) + 1 /\ DOMAIN body = 1..(Len(job.rx) + 1)
          /\ \A k \in 1..Len(job.rx) : body[k] = job.rx[k]
          /\ body[Len(job.rx) + 1] = [of |-> f.of, n |-> f.x]
      BY <1>5, <1>f, <2>m, <2>s, <2>2, PayloadAppended, SMTT(60)
    <2>4. \A k \in DOMAIN body : body[k].of = job.id
      BY <1>h, <1>o, <2>1, <2>s, <2>3, SMTT(60) DEF NetInv, Ordered
    <2>5. ASSUME job.id \notin spoilt PROVE body = [k \in 1..SEGS |-> [of |-> job.id, n |-> k]]
      <3>1. SEGS = Len(job.rx) + 1
        BY <1>5, <1>f, <1>h, <2>m, <2>5, HeadIsNext
      <3>2. \A k \in 1..Len(job.rx) : job.rx[k].n = k
        BY <1>h, <2>s, <2>5 DEF NetInv, Ordered
      <3>3. \A k \in 1..SEGS : body[k].n = k /\ body[k].of = job.id /\ body[k] \in Part
        <4> SUFFICES ASSUME NEW k \in 1..SEGS
                     PROVE  body[k].n = k /\ body[k].of = job.id /\ body[k] \in Part
          OBVIOUS
        <4>1. k \in DOMAIN body /\ body[k] \in Part
          BY <2>3, <3>1, SMTT(60)
        <4>2. CASE k \in 1..Len(job.rx)
          BY <2>3, <2>4, <3>2, <4>1, <4>2
        <4>3. CASE k = Len(job.rx) + 1
          <5>1. f.x = k
            BY <1>5, <3>1, <4>3
          <5>2. body[k].n = f.x
            BY <2>3, <4>3, SMTT(60)
          <5> QED
            BY <2>4, <4>1, <5>1, <5>2
        <4> QED
          BY <2>s, <3>1, <4>2, <4>3, SMTT(60)
      <3>4. \A k \in 1..SEGS : body[k] = [of |-> job.id, n |-> k]
        BY <3>3 DEF Part
      <3>5. DOMAIN body = 1..SEGS /\ body = [k \in DOMAIN body |-> body[k]]
        BY <2>3, <3>1, SMTT(60)
      <3> QED
        BY <3>4, <3>5
    <2>6. Done("ok", o, body)
      BY <1>5, <1>o, <2>2
    <2> QED
      BY <1>5, <1>h, <1>r, <2>1, <2>4, <2>5, <2>6, DoneStep
  <1>6. CASE /\ f.p # "unreachable" /\ (~mine \/ (job.state = 0 /\ f.x > 0))
             /\ Pending /\ UNCHANGED asks
    <2>1. ~Mine(1)
      BY <1>6, <1>f, <1>h, HeadIsOwn, SMTT(60)
    <2> QED
      BY <1>6, <1>h, <1>r, <2>1, PendingStep
  <1> QED
    BY <1>a, <1>1, <1>2, <1>3, <1>4, <1>5, <1>6

\* A datagram to the port is of the job, unless the port was reused.
LEMMA PollUdpStep ==
    ASSUME NetInv, PollUdp
    PROVE  NetInv'
  <1> DEFINE f == rxq[1]
  <1>t. NetTypes
    BY DEF NetInv
  <1>h. /\ job.kind = "udp" /\ Takes /\ job # NoJob
        /\ Keeps /\ UNCHANGED <<pings, reply, ports, asks, tags, reused>>
    BY DEF PollUdp, Takes
  <1>f. 1 \in DOMAIN rxq /\ f \in FrameT /\ Head(rxq) = f
    BY <1>t, <1>h, TakesHead
  <1>a. IF f.p = "udp" /\ f.port = job.key THEN Done("ok", f.of, <<>>) ELSE Pending
    BY <1>f DEF PollUdp
  <1>m. MsgOK(f.p, f.port, f.of, f.from)
    BY <1>f DEF NetInv, OwnMessages
  <1>r. reply' \in Nobody..(pings - 1)
    BY <1>t, <1>h DEF NetTypes
  <1>1. CASE f.p = "udp" /\ f.port = job.key
    <2>1. PICK o \in JobIds : o = f.of /\ (o = job.id \/ job.id \in reused)
      BY <1>1, <1>f, <1>h, <1>m DEF FrameT, MsgOK
    <2>2. Done("ok", o, <<>>) /\ <<>> \in Seq(Part)
      BY <1>1, <1>a, <2>1, SMTT(60)
    <2> QED
      BY <1>h, <1>r, <2>1, <2>2, DoneStep
  <1>2. CASE ~(f.p = "udp" /\ f.port = job.key)
    BY <1>2, <1>a, <1>h, <1>r, PendingStep
  <1> QED
    BY <1>1, <1>2

\* A late job reports its own timeout.
LEMMA PollTimeoutStep ==
    ASSUME NetInv, PollTimeout
    PROVE  NetInv'
  <1>t. NetTypes
    BY DEF NetInv
  <1>1. PICK o \in JobIds : o = job.id
    BY <1>t, JobKinds DEF PollTimeout
  <1>2. Done("timeout", o, <<>>) /\ <<>> \in Seq(Part)
    BY <1>1, SMTT(60) DEF PollTimeout
  <1>3. reply' \in Nobody..(pings - 1)
    BY <1>t DEF NetTypes, PollTimeout
  <1> QED
    BY <1>1, <1>2, <1>3, DoneStep DEF PollTimeout

-----------------------------------------------------------------------------
(* The theorems *)

\* Nothing has been asked or sent yet.
LEMMA NetInvInit == Init => NetInv
  <1> SUFFICES ASSUME Init PROVE NetInv
    OBVIOUS
  <1>k. NoJob.kind = "none"
    BY DEF NoJob
  <1>1. NetTypes
    BY <1>k, JobsFinite, NetAssumption, SMTT(60) DEF Init, NetTypes, Nobody, JobIds
  <1>2. OneEach /\ AnswersItsOwn /\ BodyIsTheReply
    BY SMTT(60) DEF Init, OneEach, AnswersItsOwn, BodyIsTheReply
  <1>3. OwnMessages
    BY <1>k, SMTT(60) DEF Init, OwnMessages
  <1>4. OwnSegments /\ Ordered
    BY <1>k, SMTT(60) DEF Init, OwnSegments, Ordered, JobIds
  <1> QED
    BY <1>1, <1>2, <1>3, <1>4 DEF NetInv

\* Every action of Next, and a step that changes nothing.
LEMMA NetInvNext == NetInv /\ [Next]_vars => NetInv'
  <1> SUFFICES ASSUME NetInv, [Next]_vars PROVE NetInv'
    OBVIOUS
  <1>1. ASSUME NEW w \in Windows, NEW h \in Hosts, start_ping(w, h) PROVE NetInv'
    BY <1>1, PingStep
  <1>2. ASSUME NEW w \in Windows, NEW h \in Hosts, NEW t \in TAGS, start_wget(w, h, t) \/ start_udp_cmd(w, h, t)
        PROVE  NetInv'
    <2>1. PICK id : id = Id
      OBVIOUS
    <2>2. Fresh(id, w, h) /\ UNCHANGED <<pings, reply>> /\ job = NoJob
      BY <1>2, <2>1 DEF Fresh, start_wget, start_udp_cmd, Starts, job_in_progress, Id
    <2>3. \/ build_tcp_job(id, w, h) \/ build_udp_job(id, w, h, t)
          \/ \E next \in {"tcp", "udp"} : build_resolve_job(id, w, h, t, next)
      BY <1>2, <2>1 DEF start_wget, start_udp_cmd
    <2> QED
      BY <2>2, <2>3, TcpStep, TagStep
  <1>3. CASE poll
    BY <1>3, PollPingStep, PollResolveStep, PollTcpStep, PollUdpStep, PollTimeoutStep DEF poll
  <1>4. ASSUME NEW q \in asks, NEW fs \in Answers(q), HostAnswers(q, fs) PROVE NetInv'
    BY <1>4, AnswerStep
  <1>5. ASSUME NEW f \in wire, NEW again \in BOOLEAN, Arrives(f, again) PROVE NetInv'
    BY <1>5, ArriveStep
  <1>6. CASE UNCHANGED vars
    <2>1. /\ nic' = nic /\ job' = job /\ pings' = pings /\ reply' = reply /\ ports' = ports
          /\ rxq' = rxq /\ asks' = asks /\ wire' = wire /\ came' = came /\ issuer' = issuer
          /\ results' = results /\ seen' = seen /\ spoilt' = spoilt /\ tags' = tags /\ reused' = reused
      BY <1>6 DEF vars
    <2>2. NetTypes' /\ OneEach' /\ AnswersItsOwn' /\ BodyIsTheReply'
      BY <2>1, SMTT(60) DEF NetInv, NetTypes, OneEach, AnswersItsOwn, BodyIsTheReply
    <2>3. OwnMessages' /\ OwnSegments' /\ Ordered'
      BY <2>1 DEF NetInv, OwnMessages, MsgOK, OwnSegments, SegOK, Connected, Segment, Ordered, Mine
    <2> QED
      BY <2>2, <2>3 DEF NetInv
  <1> QED
    BY <1>1, <1>2, <1>3, <1>4, <1>5, <1>6 DEF Next

\* The network jobs keep NetInv, whatever the network does to their frames.
THEOREM NetworkInvariant == Spec => []NetInv
  BY NetInvInit, NetInvNext, PTL DEF Spec

\* Every ping, wget and udp command that started a job is answered once, in its
\* own window and by the answer to its own question (net.rs, poll and start_*),
\* for every number of windows, hosts, tags, frames and ring slots.
THEOREM CommandsAnsweredOnce == Spec => []EachAnsweredOnce
  <1>1. NetInv => EachAnsweredOnce
    <2> SUFFICES ASSUME NetInv PROVE EachAnsweredOnce
      OBVIOUS
    <2>1. TypeOK
      <3>1. job.kind \in {"none", "ping", "resolve", "tcp", "udp"}
        BY JobKinds DEF NetInv, NetTypes
      <3>2. job.kind = "ping" => job.key \in 0..(pings - 1)
        BY DEF NetInv, OwnMessages
      <3> QED
        BY <3>1, <3>2 DEF NetInv, NetTypes, JobIds, TypeOK
    <2> QED
      BY <2>1, CountsResults DEF NetInv, EachAnsweredOnce
  <1> QED
    BY <1>1, NetworkInvariant, PTL

\* A wget prints segments of its own connection alone, and the whole reply when
\* they arrived once and in order (PollTcp), for every length of the reply.
THEOREM DownloadsAreWhole == Spec => []BodyIsTheReply
  <1>1. NetInv => BodyIsTheReply
    BY DEF NetInv
  <1> QED
    BY <1>1, NetworkInvariant, PTL
=============================================================================

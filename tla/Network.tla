------------------------------ MODULE Network -------------------------------
(***************************************************************************)
(* The network jobs of net.rs: ping, wget and udp start a job and return;  *)
(* the main loop polls it until it is done or late.  The network between   *)
(* the card and the hosts loses, duplicates and reorders frames; the       *)
(* card's receive ring (NicMailbox) keeps their order, and keeps what      *)
(* arrives while no job is there to take it.                               *)
(*                                                                         *)
(* Hosts, ports and transaction numbers are small numbers.  `of' is        *)
(* history: the job that made a host send the frame.  A segment's payload  *)
(* is its place in the reply of the host.  Time is not modelled: a job may *)
(* be late whenever the ring is empty, which is when poll looks at the     *)
(* clock.                                                                  *)
(***************************************************************************)
EXTENDS Integers, Sequences, FiniteSets

CONSTANTS Windows,     \* terminal windows
          Hosts,       \* hosts, by address; each has a name
          TAGS,        \* ports of udp, and transaction numbers, taken from the clock
          SEGS,        \* segments of a reply to a wget
          JOBS,        \* bound: jobs of a behaviour
          FRAMES,      \* bound: frames that reach the card
          QUEUE        \* frames the ring holds

VARIABLES nic,         \* a card was found
          job,         \* NET_JOB
          pings,       \* PING_SEQ
          reply,       \* PING_REPLY
          ports,       \* NEXT_SRC_PORT, counted from 49152
          rxq,         \* the receive ring
          asks,        \* frames on their way to a host
          wire,        \* frames on their way to the card
          came,        \* frames that reached the card
          issuer,      \* history: the window and the host of each job
          results,     \* history: what was printed, in order
          seen,        \* history: segments that arrived in order, by job
          spoilt,      \* history: jobs with a segment lost, doubled or out of order
          tags,        \* history: tags that were taken
          reused       \* history: jobs that took a tag an earlier job had taken

vars == <<nic, job, pings, reply, ports, rxq, asks, wire, came, issuer, results, seen,
          spoilt, tags, reused>>

\* Before PING_SEQ and NEXT_SRC_PORT, which are u16, come round again.
SEQS == 65536
PORTS == 65536 - 49152

ASSUME NetAssumption ==
    SEGS \in Nat \ {0} /\ QUEUE \in Nat /\ FRAMES \in Nat /\ JOBS \in Nat /\ JOBS <= PORTS
-----------------------------------------------------------------------------
NoJob == [kind |-> "none"]
Nobody == -1
Id == Len(issuer) + 1

\* A frame from a host, for the job of that number.
Frame(p, from, port, x, id) == [p |-> p, from |-> from, port |-> port, x |-> x, of |-> id]
Sends(qs) == asks' = IF nic THEN asks \cup qs ELSE asks
TakesTag(id, t) ==
    /\ tags' = tags \cup {t}
    /\ reused' = IF t \in tags THEN reused \cup {id} ELSE reused

\* A segment carries SYN and ACK, RST, or a part of the reply, the last with FIN.
SYN_ACK == 0
RST == -1

Init ==
    /\ nic \in BOOLEAN
    /\ job = NoJob /\ pings = 0 /\ reply = Nobody /\ ports = 0
    /\ rxq = <<>> /\ asks = {} /\ wire = {} /\ came = 0
    /\ issuer = <<>> /\ results = <<>>
    /\ seen = [i \in 1..JOBS |-> 0] /\ spoilt = {} /\ tags = {} /\ reused = {}

-----------------------------------------------------------------------------
(* Starting a job.  While one is in progress every start is refused. *)

job_in_progress == job # NoJob

Starts(w, h) ==
    /\ ~job_in_progress /\ Len(issuer) < JOBS
    /\ issuer' = Append(issuer, [win |-> w, host |-> h])
    /\ UNCHANGED <<nic, rxq, wire, came, results, seen, spoilt>>

\* The number of an echo request, which is the counter before it moves on.
ping_seq == pings % SEQS

start_ping(w, h) ==
    /\ nic /\ Starts(w, h)
    /\ pings' = pings + 1 /\ reply' = Nobody
    /\ job' = [kind |-> "ping", id |-> Id, win |-> w, host |-> h, key |-> ping_seq]
    /\ Sends({[p |-> "ping", to |-> h, key |-> ping_seq, of |-> Id]})
    /\ UNCHANGED <<ports, tags, reused>>

next_src_port == ports % PORTS

\* A connection begins with a SYN from the next port; it is never repeated.
build_tcp_job(id, w, h) ==
    /\ job' = [kind |-> "tcp", id |-> id, win |-> w, host |-> h, key |-> next_src_port,
               state |-> 0, rx |-> <<>>]
    /\ ports' = ports + 1
    /\ Sends({[p |-> "syn", to |-> h, key |-> next_src_port, of |-> id]})
    /\ UNCHANGED <<tags, reused>>

build_udp_job(id, w, h, t) ==
    /\ job' = [kind |-> "udp", id |-> id, win |-> w, host |-> h, key |-> t]
    /\ Sends({[p |-> "udp", to |-> h, key |-> t, of |-> id]})
    /\ TakesTag(id, t)
    /\ UNCHANGED ports

build_resolve_job(id, w, h, t, next) ==
    /\ job' = [kind |-> "resolve", id |-> id, win |-> w, host |-> h, key |-> t, next |-> next]
    /\ Sends({[p |-> "dns", to |-> h, key |-> t, of |-> id]})
    /\ TakesTag(id, t)
    /\ UNCHANGED ports

\* The host is given by address or by name.
start_wget(w, h, t) ==
    /\ Starts(w, h)
    /\ build_tcp_job(Id, w, h) \/ build_resolve_job(Id, w, h, t, "tcp")
    /\ UNCHANGED <<pings, reply>>

start_udp_cmd(w, h, t) ==
    /\ Starts(w, h)
    /\ build_udp_job(Id, w, h, t) \/ build_resolve_job(Id, w, h, t, "udp")
    /\ UNCHANGED <<pings, reply>>

-----------------------------------------------------------------------------
(* poll: one frame after the other, then the clock *)

Takes == job # NoJob /\ rxq # <<>> /\ rxq' = Tail(rxq)
Keeps == UNCHANGED <<nic, wire, came, issuer, seen, spoilt>>

\* The job is over, and poll hands its message to the window that asked.
Done(what, of, body) ==
    /\ job' = NoJob
    /\ results' = Append(results, [id |-> job.id, win |-> job.win, kind |-> job.kind,
                                   host |-> job.host, what |-> what, of |-> of, body |-> body])

Pending == UNCHANGED <<job, results>>

\* Replies to pings are recorded; other frames are handled or ignored.
PollPing ==
    LET f == Head(rxq)
        got == IF f.p = "echo" THEN f.port ELSE reply
    IN  /\ job.kind = "ping" /\ Takes
        /\ reply' = got
        /\ IF got = job.key THEN Done("ok", f.of, <<>>) ELSE Pending
        /\ Keeps /\ UNCHANGED <<pings, ports, asks, tags, reused>>

\* Mutant: any answer of the kind will do.
IsAnswer_Any(f) == f.p = "dns"

\* A name's address, or none, from the name server and for this question.
IsAnswer(f) == f.p = "dns" /\ f.port = job.key

PollResolve(t) ==
    LET f == Head(rxq)
    IN  /\ job.kind = "resolve" /\ Takes
        /\ IF ~IsAnswer(f) THEN Pending /\ UNCHANGED <<ports, asks, tags, reused>>
           ELSE IF f.x = 0 THEN Done("unknown", f.of, <<>>) /\ UNCHANGED <<ports, asks, tags, reused>>
           ELSE /\ IF job.next = "tcp" THEN build_tcp_job(job.id, job.win, f.from)
                   ELSE build_udp_job(job.id, job.win, f.from, t)
                /\ UNCHANGED results
        /\ Keeps /\ UNCHANGED <<pings, reply>>

\* Mutant: the payload of the last segment is dropped.
Payload_NotLast(f) == IF f.x = SYN_ACK \/ f.x = SEGS THEN <<>> ELSE <<[of |-> f.of, n |-> f.x]>>

\* Payload is taken as it comes; a FIN ends the job with what there is.
Payload(f) == IF f.x = SYN_ACK THEN <<>> ELSE <<[of |-> f.of, n |-> f.x]>>

PollTcp ==
    LET f == Head(rxq)
        mine == f.p = "tcp" /\ f.from = job.host /\ f.port = job.key
        rx == job.rx \o Payload(f)
    IN  /\ job.kind = "tcp" /\ Takes
        /\ \/ f.p = "unreachable" /\ Done("unreachable", f.of, <<>>) /\ UNCHANGED asks
           \/ mine /\ f.x = RST /\ Done("refused", f.of, <<>>) /\ UNCHANGED asks
           \/ /\ mine /\ f.x = SYN_ACK /\ job.state = 0
              /\ job' = [job EXCEPT !.state = 1]
              /\ Sends({[p |-> "get", to |-> job.host, key |-> job.key, of |-> job.id]})
              /\ UNCHANGED results
           \/ /\ mine /\ f.x # RST /\ job.state = 1
              /\ IF f.x = SEGS THEN Done("ok", f.of, rx)
                 ELSE job' = [job EXCEPT !.rx = rx] /\ UNCHANGED results
              /\ UNCHANGED asks
           \/ /\ f.p # "unreachable" /\ (~mine \/ (job.state = 0 /\ f.x > 0))
              /\ Pending /\ UNCHANGED asks
        /\ Keeps /\ UNCHANGED <<pings, reply, ports, tags, reused>>

\* Any datagram to the port will do.
PollUdp ==
    LET f == Head(rxq)
    IN  /\ job.kind = "udp" /\ Takes
        /\ IF f.p = "udp" /\ f.port = job.key THEN Done("ok", f.of, <<>>) ELSE Pending
        /\ Keeps /\ UNCHANGED <<pings, reply, ports, asks, tags, reused>>

\* Mutant: a name query never times out.
PollTimeout_NotResolve ==
    /\ job # NoJob /\ job.kind # "resolve" /\ rxq = <<>>
    /\ Done("timeout", job.id, <<>>)
    /\ Keeps /\ UNCHANGED <<pings, reply, ports, rxq, asks, tags, reused>>

PollTimeout ==
    /\ job # NoJob /\ rxq = <<>>
    /\ Done("timeout", job.id, <<>>)
    /\ Keeps /\ UNCHANGED <<pings, reply, ports, rxq, asks, tags, reused>>

poll == PollPing \/ (\E t \in TAGS : PollResolve(t)) \/ PollTcp \/ PollUdp \/ PollTimeout

-----------------------------------------------------------------------------
(* The hosts and the network *)

\* What a host may send back; "unreachable" comes from the gateway.
Answers(q) ==
    CASE q.p = "ping" -> {{Frame("echo", q.to, q.key, 0, q.of)}}
      [] q.p = "dns" -> {{Frame("dns", q.to, q.key, x, q.of)} : x \in 0..1}
      [] q.p = "udp" -> {{Frame("udp", q.to, q.key, 0, q.of)}}
      [] q.p = "syn" -> {{Frame("tcp", q.to, q.key, x, q.of)} : x \in {SYN_ACK, RST}}
                        \cup {{Frame("unreachable", q.to, q.key, 0, q.of)}}
      [] q.p = "get" -> {{Frame("tcp", q.to, q.key, n, q.of) : n \in 1..SEGS}}

HostAnswers(q, fs) ==
    /\ asks' = asks \ {q}
    /\ wire' = wire \cup fs
    /\ UNCHANGED <<nic, job, pings, reply, ports, rxq, came, issuer, results, seen, spoilt,
                   tags, reused>>

\* A frame reaches the card, perhaps not for the last time; a full ring
\* drops it.
Arrives(f, again) ==
    LET segment == f.p = "tcp" /\ f.x > 0
    IN  /\ came < FRAMES
        /\ came' = came + 1
        /\ wire' = IF again THEN wire ELSE wire \ {f}
        /\ rxq' = IF Len(rxq) < QUEUE THEN Append(rxq, f) ELSE rxq
        /\ seen' = IF segment /\ f.x = seen[f.of] + 1 THEN [seen EXCEPT ![f.of] = @ + 1] ELSE seen
        /\ spoilt' = IF segment /\ (f.x # seen[f.of] + 1 \/ Len(rxq) >= QUEUE)
                     THEN spoilt \cup {f.of} ELSE spoilt
        /\ UNCHANGED <<nic, job, pings, reply, ports, asks, issuer, results, tags, reused>>

Next ==
    \/ \E w \in Windows, h \in Hosts : start_ping(w, h)
    \/ \E w \in Windows, h \in Hosts, t \in TAGS : start_wget(w, h, t) \/ start_udp_cmd(w, h, t)
    \/ poll
    \/ \E q \in asks : \E fs \in Answers(q) : HostAnswers(q, fs)
    \/ \E f \in wire, again \in BOOLEAN : Arrives(f, again)

\* The main loop polls in every pass, and the clock goes on.
Spec == Init /\ [][Next]_vars /\ WF_vars(poll)

-----------------------------------------------------------------------------
\* The types of the state.
TypeOK ==
    /\ nic \in BOOLEAN /\ job.kind \in {"none", "ping", "resolve", "tcp", "udp"}
    /\ reply \in Nobody..(pings - 1) /\ (job.kind = "ping" => job.key \in 0..(pings - 1))
    /\ Len(rxq) <= QUEUE /\ Len(issuer) <= JOBS
    /\ spoilt \cup reused \subseteq 1..JOBS

\* Every command that started a job gets one message, in the window it was
\* typed in, however the job changed on the way (net.rs:608-612).
OneResultEach ==
    LET told == {results[i].id : i \in DOMAIN results}
    IN  /\ Cardinality(told) = Len(results)
        /\ told \cup (IF job = NoJob THEN {} ELSE {job.id}) = DOMAIN issuer
        /\ \A i \in DOMAIN results : results[i].win = issuer[results[i].id].win

\* What a job reports is the answer to its own question, from the host that
\* was asked for by name or by address, never a late answer to an earlier
\* one, unless the clock gave it a tag that was used before; only
\* "unreachable" is taken from any frame (net.rs:487-493, 505, 534, 576).
AnswersItsOwn ==
    \A i \in DOMAIN results :
      LET r == results[i]
      IN  /\ r.host = issuer[r.id].host \/ r.id \in reused
          /\ \/ r.of = r.id \/ r.what = "unreachable"
             \/ r.id \in reused /\ r.kind \in {"resolve", "udp"}

\* Every command that started a job is answered once, in its own window, and
\* by the answer to its own question.
EachAnsweredOnce == TypeOK /\ OneResultEach /\ AnswersItsOwn

\* A wget prints what the host sent, whole and in order, unless a segment was
\* lost, doubled or overtaken: segments are not put in order (net.rs:556-568).
\* What it prints is in any case of its own connection.
BodyIsTheReply ==
    \A i \in DOMAIN results :
      LET r == results[i]
      IN  r.kind = "tcp" /\ r.what = "ok" =>
            /\ \A k \in DOMAIN r.body : r.body[k].of = r.id
            /\ r.id \in spoilt \/ r.body = [k \in 1..SEGS |-> [of |-> r.id, n |-> k]]

\* Every job ends, with an answer or a timeout, and frees the network for
\* the next command (net.rs:631-639).
JobsEnd == (job # NoJob) ~> (job = NoJob)
=============================================================================

---------------------------- MODULE AudioMailbox ----------------------------
(***************************************************************************)
(* Sound: play_pcm and set_volume on the shared mailbox and sample buffer  *)
(* (hda.rs), the loop of hdad, and the stream the controller plays from    *)
(* that buffer.                                                            *)
(*                                                                         *)
(* A clip is a number, and as many words long as WORDS(clip) says; the     *)
(* buffer holds, word by word, the clip it came from, 0 for silence.  Time *)
(* is not modelled: a clip that plays may be found finished at any turn.   *)
(***************************************************************************)
EXTENDS Services

CONSTANT LEVELS     \* the volumes of set_volume

\* play_pcm takes an even number of words that fits the buffer.
BUFFER == 2
WORDS(clip) == IF clip % 2 = 0 THEN 1 ELSE BUFFER
Filled(b, n, x) == [i \in DOMAIN b |-> IF i <= n THEN x ELSE b[i]]

FullVolume == CHOOSE v \in LEVELS : \A w \in LEVELS : w <= v

AudioInit ==
    /\ dev = "hdad"
    /\ box = [req |-> 0, buf |-> [i \in 1..BUFFER |-> 0], volume |-> FullVolume, playing |-> FALSE,
             run |-> FALSE, gain |-> 0, asked |-> 0, clips |-> 0, over |-> FALSE,
             heard |-> [words |-> <<>>, clip |-> 0, over |-> FALSE]]

hda_spawn_pending_driver == SpawnPending("hdad") /\ UNCHANGED box
hda_start_service(c) == Launch(c, "hdad") /\ UNCHANGED box
hda_stop_service(c) == (RaiseStop(c, "hdad") \/ Stopped(c, "hdad")) /\ UNCHANGED box

set_volume(x) ==
    /\ dev = "hdad" /\ x # box.volume
    /\ box' = [box EXCEPT !.volume = x]
    /\ KernelCall("blink", "hdad", "idle", 0)

\* play_pcm: wait until the previous request was picked up, or give up;
\* then the samples, then the request.
play_pcm ==
    /\ dev = "hdad"
    /\ box' = [box EXCEPT !.clips = @ + 1]
    /\ KernelCall("blink", "hdad", "play_wait", box.clips + 1)

PlayCopies ==
    LET clip == who["blink"].x
    IN  /\ who["blink"].at = "play_wait"
        /\ box' = [box EXCEPT !.buf = Filled(@, WORDS(clip), clip),
                                  !.over = box.playing \/ box.req # 0]
        /\ KernelStep("blink", "play_req", clip)

\* Mutant: the whole buffer is asked for, whatever the clip's length.
PlayRequests_WholeBuffer ==
    /\ who["blink"].at = "play_req"
    /\ box' = [box EXCEPT !.req = BUFFER, !.asked = who["blink"].x]
    /\ KernelStep("blink", "idle", 0)

PlayRequests ==
    LET clip == who["blink"].x
    IN  /\ who["blink"].at = "play_req"
        /\ box' = [box EXCEPT !.req = WORDS(clip), !.asked = clip]
        /\ KernelStep("blink", "idle", 0)

-----------------------------------------------------------------------------
(* hdad *)

\* The amplifier's gain, of 0..127, is set by a verb to the codec.
Gain(volume) == (volume * 127) \div 100
send_verb(b, volume) == [b EXCEPT !.gain = Gain(volume)]

AudioStart(p) ==
    /\ dev = "hdad" /\ At(p, "entry") /\ boot.maps
    /\ box' = send_verb(box, box.volume)
    /\ DriverStep(p, "top", [volume |-> box.volume, words |-> 0, drain |-> FALSE, req |-> 0])

\* A clip that still plays is halted before the process goes.
AudioExit(p) ==
    /\ dev = "hdad" /\ At(p, "top") /\ stop
    /\ box' = [box EXCEPT !.run = @ /\ ~box.playing, !.playing = FALSE]
    /\ DriverStep(p, "exit", 0)

AudioVolume(p) ==
    /\ dev = "hdad" /\ At(p, "top") /\ ~stop
    /\ box' = IF box.volume # proc[p].v.volume THEN send_verb(box, box.volume) ELSE box
    /\ DriverStep(p, "req", [proc[p].v EXCEPT !.volume = box.volume])

\* A new request: what is playing is silenced, then its stream halted.
AudioRequest(p) ==
    /\ dev = "hdad" /\ At(p, "req")
    /\ box' = IF box.req # 0 /\ box.playing
                THEN [box EXCEPT !.buf = Filled(@, proc[p].v.words, 0)]
                ELSE box
    /\ DriverStep(p, IF box.req # 0 THEN "begin" ELSE "advance", [proc[p].v EXCEPT !.req = box.req])

AudioBegin(p) ==
    /\ dev = "hdad" /\ At(p, "begin")
    /\ box' = [send_verb(box, proc[p].v.volume) EXCEPT
                              !.run = TRUE, !.playing = TRUE, !.req = 0,
                              !.heard = [words |-> SubSeq(box.buf, 1, proc[p].v.req),
                                         clip |-> box.asked, over |-> box.over]]
    /\ DriverStep(p, "advance", [proc[p].v EXCEPT !.words = proc[p].v.req, !.drain = FALSE])

\* Playing on; finished, so the buffer is silenced and drains; drained.
AudioAdvance(p) ==
    LET v == proc[p].v
    IN  /\ dev = "hdad" /\ At(p, "advance")
        /\ \/ /\ UNCHANGED box /\ DriverStep(p, "top", v)
           \/ /\ box.playing /\ ~v.drain
              /\ box' = [box EXCEPT !.buf = Filled(@, v.words, 0)]
              /\ DriverStep(p, "top", [v EXCEPT !.drain = TRUE])
           \/ /\ box.playing /\ v.drain
              /\ box' = [box EXCEPT !.run = FALSE, !.playing = FALSE]
              /\ DriverStep(p, "top", [v EXCEPT !.drain = FALSE])

AudioDriver(p) ==
    \/ AudioStart(p) \/ AudioExit(p) \/ AudioVolume(p)
    \/ AudioRequest(p) \/ AudioBegin(p) \/ AudioAdvance(p)

AudioNext ==
    \/ hda_spawn_pending_driver
    \/ \E c \in Callers : hda_start_service(c) \/ hda_stop_service(c)
    \/ \E x \in LEVELS : set_volume(x)
    \/ play_pcm \/ PlayCopies \/ PlayRequests
    \/ \E p \in DOMAIN proc : AudioDriver(p)

-----------------------------------------------------------------------------
\* The controller never plays on with no driver left to stop it, and
\* is_playing says whether it plays (hdad main.rs:172-180).
NoOrphanStream ==
    dev # "hdad" \/ slipped \/ (box.run = box.playing /\ (Alive = {} => ~box.run))

\* What starts to play is the clip that was asked for, word for word, unless
\* its samples were written while another clip played or waited: hdad then
\* silences the buffer they share (hda.rs:416-426, hdad main.rs:199).
ClipsPlayWhole ==
    \/ dev # "hdad" \/ slipped \/ box.heard.over \/ box.heard.clip = 0
    \/ box.heard.words = [i \in 1..WORDS(box.heard.clip) |-> box.heard.clip]

\* Once the driver has gone round without a new setting, the gain of the
\* amplifier is the volume that was set (hdad main.rs:186-190).
GainFollowsVolume ==
    \/ dev # "hdad" \/ slipped
    \/ \A p \in Alive : proc[p].at \in {"req", "begin", "advance", "top"} => box.gain = Gain(proc[p].v.volume)

\* What is heard is what was asked for: the clip, its volume, and silence
\* when no driver is left, through stops and restarts of hdad.
SoundAsAsked == NoOrphanStream /\ ClipsPlayWhole /\ GainFollowsVolume
=============================================================================

---------------------------- MODULE AudioStream ----------------------------
(***************************************************************************)
(* The modem's sound card (audio/alsa_io.rs) as the event loop uses it:    *)
(* AudioStream::start with its two threads and their ready channel, the    *)
(* ring towards the modem, which is the jitter buffer, the queue of DTMF   *)
(* tones that replaces it for a while, and shutdown.                       *)
(*                                                                         *)
(* A thread holds one direction of the card from its open to its end; a    *)
(* second open of that direction fails.  Threads of an earlier call may    *)
(* still run when the next call starts.  Rings are counted in periods, and *)
(* the peer's packets are as long as a period.  What every module has, a   *)
(* specification, its parts and its types, bears the prefix Audio here, so *)
(* that MediaProofs can extend RtpSession beside this module.              *)
(***************************************************************************)
EXTENDS Integers, Sequences

CONSTANTS
    Streams,    \* audio streams, one per call
    NoStream,       \* no stream
    Wedges,     \* whether an open can block for ever
    Jitter,     \* cfg.rtp.jitter_ms, in periods
    Tone, Gap,  \* periods of a digit's tone and of the silence after it
    MaxTone,    \* MAX_TONE_SAMPLES, in periods
    MaxLate,    \* bound: packets of the peer that are under way
    MaxLost,    \* bound: packets lost, and periods the card runs ahead
    MaxDigits   \* bound: digits played

ASSUME AudioAssumption ==
    /\ Jitter \in Nat /\ Tone \in Nat \ {0} /\ Gap \in Nat /\ MaxTone \in Nat
    /\ MaxLate \in Nat /\ MaxLost \in Nat /\ MaxDigits \in Nat /\ Wedges \in BOOLEAN
    /\ NoStream \notin Streams

VARIABLES
    loop,       \* where the event loop is, and with which stream
    threads,    \* threads[s][d]
    ready,      \* ready[s]: what the threads have sent to start
    stop,       \* streams whose stop flag is set
    failed,     \* streams whose failed flag is set
    card,       \* card[d]: the stream whose thread has that direction open
    wedged,     \* directions of the card an open of which does not return
    ring,       \* to_modem
    tone,       \* tone: frames of digits, and silence
    traffic         \* history: packets under way, lost ones, digits queued

stream == <<loop, threads, ready, stop, failed, card, wedged>>
audio == <<ring, tone, traffic>>
audioVars == <<stream, audio>>

Dirs == {"capture", "playback"}
Target == IF Jitter > 1 THEN Jitter ELSE 1
HighWater == 3 * Target
Frames == [digit : 0..MaxDigits, part : 1..Tone]
Silence == [digit |-> 0, part |-> 1]

AudioTypeOK ==
    /\ loop \in [pc : {"idle", "opening", "half", "joining", "up"}, s : Streams \cup {NoStream}]
    /\ threads \in [Streams -> [Dirs -> {"none", "opening", "running", "ended"}]]
    /\ ready \in [Streams -> Seq(BOOLEAN)] /\ \A s \in Streams : Len(ready[s]) <= 2
    /\ stop \subseteq Streams /\ failed \subseteq Streams
    /\ card \in [Dirs -> Streams \cup {NoStream}]
    /\ wedged \subseteq Dirs
    /\ ring \in Nat
    /\ tone \in Seq(Frames) /\ Len(tone) <= MaxTone
    /\ traffic \in [late : 0..MaxLate, lost : 0..MaxLost, digits : 0..MaxDigits]

Calm == [late |-> 0, lost |-> 0, digits |-> 0]

AudioInit ==
    /\ loop = [pc |-> "idle", s |-> NoStream]
    /\ threads = [s \in Streams |-> [d \in Dirs |-> "none"]]
    /\ ready = [s \in Streams |-> <<>>]
    /\ stop = {} /\ failed = {}
    /\ card = [d \in Dirs |-> NoStream]
    /\ wedged \in IF Wedges THEN SUBSET Dirs ELSE {{}}
    /\ ring = 0 /\ tone = <<>> /\ traffic = Calm

Idle == [pc |-> "idle", s |-> NoStream]

----------------------------------------------------------------------------
(* The card.                                                               *)

\* A wedged direction may come back, or not.
Unwedge(d) ==
    /\ wedged' = wedged \ {d}
    /\ wedged # wedged'
    /\ UNCHANGED <<loop, threads, ready, stop, failed, card, audio>>

----------------------------------------------------------------------------
(* The threads.                                                            *)

Report(s, ok) == ready' = [ready EXCEPT ![s] = Append(@, ok)]

\* open_pcm succeeds, and the thread says so.
OpenSucceeds(s, d) ==
    /\ threads[s][d] = "opening" /\ d \notin wedged /\ card[d] = NoStream
    /\ card' = [card EXCEPT ![d] = s]
    /\ threads' = [threads EXCEPT ![s][d] = "running"]
    /\ Report(s, TRUE)
    /\ UNCHANGED <<loop, stop, failed, wedged, audio>>

\* open_pcm fails: the card is busy, or not there.
OpenFails(s, d) ==
    /\ threads[s][d] = "opening" /\ d \notin wedged
    /\ threads' = [threads EXCEPT ![s][d] = "ended"]
    /\ failed' = failed \cup {s}
    /\ Report(s, FALSE)
    /\ UNCHANGED <<loop, stop, card, wedged, audio>>

ThreadEnds(s, d) ==
    /\ threads' = [threads EXCEPT ![s][d] = "ended"]
    /\ card' = [card EXCEPT ![d] = NoStream]

\* Mutant: the threads look at the other stop flag, that of the RTP tasks.
StopSeenWhileUp(s) == s \in stop /\ loop.s = s

\* capture_thread, playback_thread: the test of the loop.
StopSeen(s) == s \in stop

ThreadStops(s, d) ==
    /\ threads[s][d] = "running" /\ StopSeen(s)
    /\ ThreadEnds(s, d)
    /\ UNCHANGED <<loop, ready, stop, failed, wedged, audio>>

\* io_i16 fails, or recover has seen its 51st error in a row.
ThreadFails(s, d) ==
    /\ threads[s][d] = "running"
    /\ ThreadEnds(s, d)
    /\ failed' = failed \cup {s}
    /\ UNCHANGED <<loop, ready, stop, wedged, audio>>

----------------------------------------------------------------------------
(* The event loop.                                                         *)

Unused == {s \in Streams : \A d \in Dirs : threads[s][d] = "none"}

\* start_media, AudioStream::start: two threads are spawned.
Start ==
    /\ loop.pc = "idle" /\ Unused # {}
    /\ LET s == CHOOSE s \in Unused : TRUE
       IN  /\ loop' = [pc |-> "opening", s |-> s]
           /\ threads' = [threads EXCEPT ![s] = [d \in Dirs |-> "opening"]]
    /\ UNCHANGED <<ready, stop, failed, card, wedged, audio>>

Opening == loop.pc \in {"opening", "half"}

\* start: one direction has opened.  With the second the call has its media:
\* MediaSession::start fills the ring up to the jitter depth.
HearReady ==
    /\ Opening /\ ready[loop.s] # <<>> /\ Head(ready[loop.s])
    /\ ready' = [ready EXCEPT ![loop.s] = Tail(@)]
    /\ IF loop.pc = "opening"
       THEN loop' = [loop EXCEPT !.pc = "half"] /\ UNCHANGED ring
       ELSE loop' = [loop EXCEPT !.pc = "up"] /\ ring' = Jitter
    /\ UNCHANGED <<threads, stop, failed, card, wedged, tone, traffic>>

\* Mutant: a failed start just returns.
HearFailureAndReturn ==
    /\ Opening /\ ready[loop.s] # <<>> /\ ~Head(ready[loop.s])
    /\ loop' = Idle
    /\ UNCHANGED <<threads, ready, stop, failed, card, wedged, audio>>

\* start: a direction has not opened; shutdown joins both threads.
HearFailure ==
    /\ Opening /\ ready[loop.s] # <<>> /\ ~Head(ready[loop.s])
    /\ stop' = stop \cup {loop.s}
    /\ loop' = [loop EXCEPT !.pc = "joining"]
    /\ UNCHANGED <<threads, ready, failed, card, wedged, audio>>

\* shutdown: both threads have ended.
Joined ==
    /\ loop.pc = "joining" /\ \A d \in Dirs : threads[loop.s][d] = "ended"
    /\ loop' = Idle
    /\ UNCHANGED <<threads, ready, stop, failed, card, wedged, audio>>

\* start: nothing heard for OPEN_TIMEOUT; detach joins nobody.
OpenTimeout ==
    /\ Opening /\ ready[loop.s] = <<>>
    /\ stop' = stop \cup {loop.s}
    /\ loop' = Idle
    /\ UNCHANGED <<threads, ready, failed, card, wedged, audio>>

\* MediaSession::stop, for the event loop: the threads are joined elsewhere.
StopMedia ==
    /\ loop.pc = "up"
    /\ stop' = stop \cup {loop.s}
    /\ loop' = Idle
    /\ ring' = 0 /\ tone' = <<>> /\ traffic' = Calm
    /\ UNCHANGED <<threads, ready, failed, card, wedged>>

\* audio_failed, asked by check_media.
AudioFailed == loop.s \in failed

CheckMedia == loop.pc = "up" /\ AudioFailed /\ StopMedia

----------------------------------------------------------------------------
(* The ring towards the modem.                                             *)

\* Mutant: what runs long is thrown away.
TrimAll(n) == IF n > HighWater THEN 0 ELSE n

\* trim.
Trim(n) == IF n > HighWater THEN Target ELSE n

Playing == loop.pc = "up" /\ threads[loop.s]["playback"] = "running"

\* push_from_network.
PushFromNetwork ==
    /\ loop.pc = "up" /\ traffic.late > 0
    /\ ring' = Trim(ring + 1)
    /\ traffic' = [traffic EXCEPT !.late = @ - 1]
    /\ UNCHANGED <<stream, tone>>

PacketLost ==
    /\ loop.pc = "up" /\ traffic.late > 0 /\ traffic.lost < MaxLost
    /\ traffic' = [traffic EXCEPT !.late = @ - 1, !.lost = @ + 1]
    /\ UNCHANGED <<stream, ring, tone>>

\* take_for_card: a tone replaces what the far end says meanwhile.
TakeForCard ==
    /\ ring' = IF ring = 0 THEN 0 ELSE ring - 1
    /\ tone' = IF tone = <<>> THEN tone ELSE Tail(tone)

\* A period goes by: the peer has sent a packet, the card has taken a period.
Period ==
    /\ Playing /\ traffic.late < MaxLate
    /\ TakeForCard
    /\ traffic' = [traffic EXCEPT !.late = @ + 1]
    /\ UNCHANGED stream

\* The card runs behind the packet clock, by drift or a scheduling hiccup.
CardIsLate ==
    /\ Playing /\ traffic.late < MaxLate
    /\ traffic' = [traffic EXCEPT !.late = @ + 1]
    /\ UNCHANGED <<stream, ring, tone>>

\* The card runs ahead of it.
CardIsEarly ==
    /\ Playing /\ traffic.lost < MaxLost
    /\ TakeForCard
    /\ traffic' = [traffic EXCEPT !.lost = @ + 1]
    /\ UNCHANGED stream

----------------------------------------------------------------------------
(* DTMF tones.                                                             *)

\* Mutant: as much as fits is queued.
queue_toneCut(queue, frames) ==
    queue \o SubSeq(frames, 1, IF Len(queue) + Len(frames) > MaxTone
                               THEN MaxTone - Len(queue) ELSE Len(frames))

\* queue_tone: all of it or nothing.
queue_tone(queue, frames) ==
    IF Len(queue) + Len(frames) > MaxTone THEN queue ELSE queue \o frames

\* send_dtmf_inband, one digit: its tone, and if that has fitted its gap.
SendDtmfInband ==
    /\ loop.pc = "up" /\ traffic.digits < MaxDigits
    /\ LET digit == [i \in 1..Tone |-> [digit |-> traffic.digits + 1, part |-> i]]
           queued == queue_tone(tone, digit)
       IN  tone' = IF queued = tone THEN tone
                   ELSE queue_tone(queued, [i \in 1..Gap |-> Silence])
    /\ traffic' = [traffic EXCEPT !.digits = @ + 1]
    /\ UNCHANGED <<stream, ring>>

----------------------------------------------------------------------------

AudioNext ==
    \/ Start \/ HearReady \/ HearFailure \/ Joined \/ OpenTimeout \/ StopMedia \/ CheckMedia
    \/ PushFromNetwork \/ PacketLost \/ Period \/ CardIsLate \/ CardIsEarly \/ SendDtmfInband
    \/ \E d \in Dirs : Unwedge(d)
    \/ \E s \in Streams, d \in Dirs :
          OpenSucceeds(s, d) \/ OpenFails(s, d) \/ ThreadStops(s, d) \/ ThreadFails(s, d)

AudioSpec == AudioInit /\ [][AudioNext]_audioVars

\* Threads run, an open that is not wedged returns, the event loop comes round.
AudioFairness ==
    /\ WF_audioVars(HearReady) /\ WF_audioVars(HearFailure) /\ WF_audioVars(Joined)
    /\ WF_audioVars(OpenTimeout) /\ WF_audioVars(CheckMedia)
    /\ \A s \in Streams, d \in Dirs :
          /\ WF_audioVars(OpenSucceeds(s, d) \/ OpenFails(s, d))
          /\ WF_audioVars(ThreadStops(s, d))

FairAudioSpec == AudioSpec /\ AudioFairness

----------------------------------------------------------------------------

(***************************************************************************)
(* Only a thread that runs has the card, and only for the stream in use or *)
(* one that has been told to stop: "whichever one did open has to be shut  *)
(* down before we give up, or it keeps holding the card".                  *)
(***************************************************************************)
HoldersAreKnown ==
    \A d \in Dirs : card[d] # NoStream =>
        /\ threads[card[d]][d] = "running"
        /\ card[d] \in stop \cup {loop.s}

\* What is checked: the threads are well formed and the card's are known.
CardInv == AudioTypeOK /\ HoldersAreKnown

(***************************************************************************)
(* The rings: "anything beyond it is drift to be given back", and nothing  *)
(* within it is.  Whatever is trimmed and whatever tones play, what is     *)
(* queued and under way never falls short of the jitter depth the ring was *)
(* filled with by more than what was lost, so that an underrun means that  *)
(* the network was that late; and it never runs longer than the ceiling.   *)
(***************************************************************************)
DepthIsKept ==
    loop.pc = "up" => ring + traffic.late + traffic.lost >= Jitter /\ ring <= HighWater

(***************************************************************************)
(* queue_tone: "dropping the head would cut a tone in half".  Every digit  *)
(* that is queued is there to its end.                                     *)
(***************************************************************************)
DigitsAreWhole ==
    \A i \in 1..Len(tone) :
        tone[i].digit # 0 /\ tone[i].part < Tone =>
            /\ i < Len(tone)
            /\ tone[i + 1] = [tone[i] EXCEPT !.part = @ + 1]

----------------------------------------------------------------------------
(* The inductive strengthening of CardInv (proved in MediaProofs).         *)

\* The threads that have not said yet how their open went.
Unheard(s) == {d \in Dirs : threads[s][d] = "opening"}

\* The ready channel has room for what is still to be said, and the stream of
\* no thread is neither in use nor told to stop.
StreamInv ==
    /\ loop.pc = "idle" <=> loop.s = NoStream
    /\ loop.pc = "joining" => loop.s \in stop
    /\ \A s \in Streams :
          /\ Len(ready[s]) <= 2
          /\ ready[s] # <<>> => Unheard(s) # Dirs
          /\ Len(ready[s]) = 2 => Unheard(s) = {}
          /\ (\A d \in Dirs : threads[s][d] = "none") => ready[s] = <<>>
          /\ \A d \in Dirs : threads[s][d] \in {"opening", "running"} => s \in stop \cup {loop.s}

----------------------------------------------------------------------------

(***************************************************************************)
(* A stream that has been told to stop lets go of the card, however its    *)
(* start or its call has ended, and the threads that were abandoned while  *)
(* their open was blocked "see stop as soon as the open returns and exit". *)
(***************************************************************************)
CardComesFree ==
    \A s \in Streams, d \in Dirs : (card[d] = s /\ loop.s # s) ~> card[d] # s

\* start has called shutdown, which joins a thread whose open is blocked.
JoiningWedged ==
    loop.pc = "joining" /\ \E d \in wedged : threads[loop.s][d] = "opening"

(***************************************************************************)
(* start returns, with a stream or with a failure, unless it is blocked    *)
(* for good in the join of one thread.  A card neither direction of which  *)
(* answers does not block it (OPEN_TIMEOUT, detach); one whose other       *)
(* direction has failed does, because that failure is not a timeout and is *)
(* answered by stream.shutdown().  A join that is over, since the open has *)
(* returned after all, lets start return.                                  *)
(***************************************************************************)
StartEndsOrJoins ==
    Opening ~> (loop.pc \in {"idle", "up"} \/ []JoiningWedged)

(***************************************************************************)
(* No call takes the card with it, and no card takes the gateway with it   *)
(* but by that join: the two together (start, MediaSession::stop).         *)
(***************************************************************************)
StartsAndStopsEnd == CardComesFree /\ StartEndsOrJoins

(***************************************************************************)
(* "joining it would wait exactly as long as the open does (on a wedged    *)
(* USB audio function, forever) and take the gateway's event loop down     *)
(* with it": start returns whatever the card does.                         *)
(***************************************************************************)
StartReturns == Opening ~> loop.pc \in {"idle", "up"}
=============================================================================

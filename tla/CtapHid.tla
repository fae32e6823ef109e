------------------------------- MODULE CtapHid -------------------------------
(***************************************************************************)
(* CTAPHID: a FIDO authenticator answers requests on channels it hands out *)
(* and may forget.  The transport sends a CBOR request on its channel,     *)
(* takes a new channel and sends the request once more when the channel is *)
(* unknown, and gives up its handle on any other failure, timeouts         *)
(* included.  A device answers late, another program on the same device    *)
(* initialises channels at the same time, and every open handle is sent    *)
(* every report.                                                           *)
(*                                                                         *)
(* A report stands for a complete message: its packets carry the channel,  *)
(* and the reader skips the packets of other channels between them.        *)
(***************************************************************************)
EXTENDS Integers, Sequences

CONSTANTS
    MaxRequests,   \* bound on the requests
    MaxChannels,   \* bound on the channels the device hands out
    MaxInits,      \* bound on the INIT exchanges of the transport
    MaxReports,    \* bound on the reports waiting in a handle
    Broadcast      \* the broadcast channel

ASSUME HidAssumption ==
    /\ MaxRequests \in Nat /\ MaxChannels \in Nat /\ MaxInits \in Nat /\ MaxReports \in Nat
    /\ Broadcast \notin Int

VARIABLES
    hid,       \* CtapHidState, and the exchange that is running
    reports,   \* reports waiting in the open handle
    known,     \* channels the device knows
    theirs,    \* channels it handed to the other program
    channels,  \* channels it has handed out
    inits,     \* INIT exchanges so far: the last one's number stands for its nonce
    working,   \* messages the device has received and not answered
    requests,  \* requests so far
    ran,       \* how often the device ran each request
    answer     \* the request whose answer the last transact returned

hidVars == <<hid, reports, known, theirs, channels, inits, working, requests, ran, answer>>
authenticatorVars == <<known, theirs, channels, ran>>

Unanswered == 0
Failed == -1

\* A handle that was dropped: io and init are None.
Dropped == [io |-> FALSE, channel |-> 0, pc |-> "idle", resent |-> FALSE]

\* The INIT message with the nonce of its exchange; a request on a channel.
InitMessage(nonce) == [channel |-> Broadcast, number |-> nonce]
RequestMessage(request, channel) == [channel |-> channel, number |-> request]

\* Type invariant: what the transport and the device hold.
HidTypeOK ==
    /\ hid \in [io : BOOLEAN, channel : 0..MaxChannels,
                pc : {"idle", "init", "wait"}, resent : BOOLEAN]
    /\ channels \in 0..MaxChannels /\ known \subseteq 1..channels
    /\ theirs \subseteq 1..channels
    /\ inits \in 0..MaxInits /\ requests \in 0..MaxRequests
    /\ ran \in [1..MaxRequests -> Nat]
    /\ answer \in -1..MaxRequests
    /\ Len(reports) <= MaxReports

HidInit ==
    /\ hid = Dropped
    /\ reports = <<>> /\ known = {} /\ theirs = {} /\ channels = 0
    /\ inits = 0 /\ working = {}
    /\ requests = 0 /\ ran = [r \in 1..MaxRequests |-> 0]
    /\ answer = Unanswered

\* A report of the device reaches the handle if it is open.
Reported(report) ==
    IF hid.io \/ hid.pc = "init" THEN Append(reports, report) ELSE reports

(***************************************************************************)
(* The host                                                                *)
(***************************************************************************)
\* An INIT with a fresh nonce on the broadcast channel.
SendsInit ==
    /\ inits < MaxInits
    /\ inits' = inits + 1
    /\ working' = working \cup {InitMessage(inits')}

\* refresh: a lost connection is opened again, with a fresh handle.
Reconnect ==
    /\ hid.pc = "idle" /\ ~hid.io
    /\ SendsInit
    /\ hid' = [Dropped EXCEPT !.pc = "init"]
    /\ reports' = <<>>
    /\ UNCHANGED <<authenticatorVars, requests, answer>>

\* transact: the request is written on the channel of the transport.
Transact ==
    /\ hid.pc = "idle" /\ hid.io /\ requests < MaxRequests
    /\ requests' = requests + 1
    /\ hid' = [hid EXCEPT !.pc = "wait", !.resent = FALSE]
    /\ working' = working \cup {RequestMessage(requests', hid.channel)}
    /\ answer' = Unanswered
    /\ UNCHANGED <<authenticatorVars, reports, inits>>

Incoming == Head(reports)
Reads(pc, channel) ==
    /\ hid.pc = pc /\ reports # <<>> /\ Incoming.channel = channel
    /\ reports' = Tail(reports)

\* The handle is dropped and a transact that was running returns the error.
Drops ==
    /\ hid' = Dropped
    /\ answer' = IF hid.pc = "wait" \/ hid.resent THEN Failed ELSE answer

\* initialize_channel took a channel; in the middle of a transact the request is
\* sent again on it.
TakesChannel(channel) ==
    /\ hid' = [hid EXCEPT !.io = TRUE, !.channel = channel,
                          !.pc = IF hid.resent THEN "wait" ELSE "idle"]
    /\ working' = IF hid.resent THEN working \cup {RequestMessage(requests, channel)}
                                ELSE working
    /\ UNCHANGED answer

\* initialize_channel: the answer has to carry the nonce.
Initialized ==
    /\ Reads("init", Broadcast)
    /\ IF Incoming.number = inits THEN TakesChannel(Incoming.new)
                                  ELSE Drops /\ UNCHANGED working
    /\ UNCHANGED <<authenticatorVars, inits, requests>>

\* read_message: the answer on the channel is taken for the answer to the request.
Answered ==
    /\ Reads("wait", hid.channel) /\ Incoming.kind = "answer"
    /\ answer' = Incoming.number
    /\ hid' = [hid EXCEPT !.pc = "idle"]
    /\ UNCHANGED <<authenticatorVars, inits, working, requests>>

\* An unknown channel is initialised again, once.
InvalidChannel ==
    /\ Reads("wait", hid.channel) /\ Incoming.kind = "invalid"
    /\ IF hid.resent
       THEN Drops /\ UNCHANGED <<inits, working>>
       ELSE /\ SendsInit
            /\ hid' = [hid EXCEPT !.pc = "init", !.resent = TRUE]
            /\ UNCHANGED answer
    /\ UNCHANGED <<authenticatorVars, requests>>

\* Packets of other channels are skipped.
Ignored ==
    /\ \/ hid.pc = "init" /\ reports # <<>> /\ Incoming.channel # Broadcast
       \/ hid.pc = "wait" /\ reports # <<>> /\ Incoming.channel # hid.channel
    /\ reports' = Tail(reports)
    /\ UNCHANGED <<authenticatorVars, hid, inits, working, requests, answer>>

\* Mutant of HidFails: a timeout keeps the handle and its channel.
HidFailsKept ==
    /\ hid.pc # "idle"
    /\ hid' = IF hid.pc = "wait" THEN [hid EXCEPT !.pc = "idle"] ELSE Dropped
    /\ answer' = IF hid.pc = "wait" \/ hid.resent THEN Failed ELSE answer
    /\ UNCHANGED <<authenticatorVars, reports, inits, working, requests>>

\* Mutant of HidFails: a request that got no answer is sent again on a new channel.
HidFailsRetried ==
    /\ hid.pc # "idle"
    /\ IF hid.pc = "wait" /\ ~hid.resent
       THEN /\ SendsInit
            /\ hid' = [hid EXCEPT !.pc = "init", !.resent = TRUE]
            /\ UNCHANGED answer
       ELSE Drops /\ UNCHANGED <<inits, working>>
    /\ UNCHANGED <<authenticatorVars, reports, requests>>

\* A timeout, a failed write or read, another error of the device: the handle is
\* dropped and the error returned, without another try.
HidFails ==
    /\ hid.pc # "idle"
    /\ Drops
    /\ reports' = <<>>
    /\ UNCHANGED <<authenticatorVars, inits, working, requests>>

(***************************************************************************)
(* The authenticator and the other program                                 *)
(***************************************************************************)
HandleRoom == Len(reports) < MaxReports

\* The device gives out a channel; its answer to INIT is broadcast.
HandsOut(nonce) ==
    /\ HandleRoom /\ channels < MaxChannels
    /\ channels' = channels + 1 /\ known' = known \cup {channels'}
    /\ reports' = Reported([channel |-> Broadcast, kind |-> "init", number |-> nonce,
                            new |-> channels'])

DeviceInitializes ==
    /\ \E message \in working :
           /\ message.channel = Broadcast
           /\ working' = working \ {message}
           /\ HandsOut(message.number)
    /\ UNCHANGED <<hid, theirs, inits, requests, ran, answer>>

OtherInitializes ==
    /\ HandsOut(0)
    /\ theirs' = theirs \cup {channels'}
    /\ UNCHANGED <<hid, inits, working, requests, ran, answer>>

\* A request on a known channel runs, early or late; on another it is refused.
DeviceAnswers ==
    /\ HandleRoom
    /\ \E message \in working :
           /\ message.channel # Broadcast
           /\ working' = working \ {message}
           /\ LET runs == message.channel \in known
              IN  /\ ran' = IF runs THEN [ran EXCEPT ![message.number] = @ + 1] ELSE ran
                  /\ reports' = Reported([channel |-> message.channel,
                                          kind |-> IF runs THEN "answer" ELSE "invalid",
                                          number |-> message.number, new |-> 0])
    /\ UNCHANGED <<hid, known, theirs, channels, inits, requests, answer>>

\* The device forgets a channel, to give out another one or in a power cycle.
Forgets ==
    /\ \E c \in known : known' = known \ {c}
    /\ UNCHANGED <<hid, reports, theirs, channels, inits, working, requests, ran, answer>>

HidNext ==
    \/ Reconnect \/ Transact \/ Initialized \/ Answered \/ InvalidChannel \/ Ignored
    \/ HidFails
    \/ DeviceInitializes \/ OtherInitializes \/ DeviceAnswers \/ Forgets

HidSpec == HidInit /\ [][HidNext]_hidVars

(***************************************************************************)
(* Properties                                                              *)
(***************************************************************************)
\* What transact returns is the answer to its own request, never the late answer to
\* a request that timed out before, and its channel is not one that the device gave to
\* another program, whose INIT answers are broadcast to both.
OwnAnswer ==
    /\ answer > 0 => answer = requests
    /\ hid.io => hid.channel \notin theirs

\* A request runs at most once on the authenticator, although it is sent a second
\* time after its channel was refused, and a request that returned an answer ran.
RunsOnce ==
    /\ \A r \in 1..MaxRequests : ran[r] <= 1
    /\ answer > 0 => ran[answer] = 1
=============================================================================

------------------------------- MODULE Voice -------------------------------
(***************************************************************************)
(* The voice control of the web UI (boddos/ui/app.js): the conversation    *)
(* object Voice, the dictation buttons, and the speech that both wait for. *)
(*                                                                         *)
(* A recognizer hears at most one utterance and then reports its end; what *)
(* keeps the assistant listening is the chain from the end of one to the   *)
(* start of the next, through a timer while something is being spoken, or  *)
(* through the reply to what was said.  Several such chains can exist at   *)
(* once, since each keeps its own callback.                                *)
(*                                                                         *)
(* The browser is external: it runs one recognizer per page, so starting   *)
(* one aborts the other, whose end is reported a little later and which    *)
(* hears nothing any more.  One that was told to stop may still report     *)
(* what it heard, which _onResult ignores in mode "off".                   *)
(*                                                                         *)
(* VoiceSpec and its parts have names of their own: Screens_proofs extends *)
(* this module together with EventBus.                                     *)
(***************************************************************************)
EXTENDS Integers

CONSTANTS
    NoDictation,    \* no dictation has the microphone
    MaxTaps         \* bound on what the user does with buttons and the keyboard

Modes == {"off", "wake", "active"}

ASSUME VoiceAssumption == NoDictation \notin Modes /\ MaxTaps \in Nat

VARIABLES
    mode,       \* Voice.mode
    rec,        \* Voice.rec: what it does, and whether it still has its onend
    aborted,    \* how many earlier recognizers have an onend still to be called
    waiting,    \* how many restarts wait in afterSpeaking
    turns,      \* how many calls of _turn await the reply
    speaking,   \* speechSynthesis.speaking
    dictation,  \* the mode to resume after the dictation that is being heard
    ends,       \* how many ends of dictations are to come, by the mode to resume
    \* ghost
    taps,       \* what the user has done so far
    starts      \* how often Voice.start was called

voiceVars == <<mode, rec, aborted, waiting, turns, speaking, dictation, ends, taps, starts>>

VoiceTypeOK ==
    /\ mode \in Modes
    /\ rec \in [stage : {"listening", "stopping", "ended"}, chained : BOOLEAN]
    /\ {aborted, waiting, turns, taps, starts} \subseteq Nat
    /\ speaking \in BOOLEAN
    /\ dictation \in Modes \cup {NoDictation}
    /\ ends \in [Modes -> Nat]

Ended == [stage |-> "ended", chained |-> FALSE]

VoiceInit ==
    /\ mode = "off"
    /\ rec = Ended
    /\ aborted = 0 /\ waiting = 0 /\ turns = 0
    /\ speaking = FALSE
    /\ dictation = NoDictation
    /\ ends = [m \in Modes |-> 0]
    /\ taps = 0 /\ starts = 0
-----------------------------------------------------------------------------
Count(b) == IF b THEN 1 ELSE 0

\* The dictation that has the microphone loses it; its end joins the pending ones.
Take(pending) ==
    ends' = IF dictation = NoDictation THEN pending
            ELSE [pending EXCEPT ![dictation] = @ + 1]

\* Mutant of Listen: whether Voice is off is not looked at.
ListenAlways(m, r, left, pending) ==
    /\ rec' = [stage |-> "listening", chained |-> TRUE]
    /\ aborted' = left + Count(r.chained)
    /\ dictation' = NoDictation
    /\ Take(pending)

\* Voice._listen in mode m, when r is the recognizer so far, `left` others are to
\* end, and so are the dictations in `pending`.  The recognizer that is replaced
\* keeps its onend.
Listen(m, r, left, pending) ==
    IF m = "off"
    THEN /\ rec' = r
         /\ aborted' = left
         /\ ends' = pending
         /\ UNCHANGED dictation
    ELSE /\ rec' = [stage |-> "listening", chained |-> TRUE]
         /\ aborted' = left + Count(r.chained)
         /\ dictation' = NoDictation
         /\ Take(pending)

\* Voice.start
Start(m, pending) ==
    /\ mode' = m
    /\ starts' = starts + 1
    /\ Listen(m, rec, aborted, pending)

\* this.rec.onend = null; this.rec.stop()
Silenced(r) ==
    [stage |-> IF r.stage = "ended" THEN "ended" ELSE "stopping", chained |-> FALSE]

\* Voice.stop
Stop ==
    /\ mode' = "off"
    /\ rec' = Silenced(rec)
    /\ UNCHANGED <<aborted, dictation, ends, starts>>

Tap ==
    /\ taps < MaxTaps
    /\ taps' = taps + 1

\* The button "Hey Ori"
TapWake ==
    /\ Tap
    /\ IF mode = "off" THEN Start("wake", ends) ELSE Stop
    /\ UNCHANGED <<waiting, turns, speaking>>

\* The button "Talk"
TapTalk ==
    /\ Tap
    /\ IF mode = "active"
       THEN /\ mode' = "wake"
            /\ UNCHANGED <<rec, aborted, dictation, ends, starts>>
       ELSE Start("active", ends)
    /\ UNCHANGED <<waiting, turns, speaking>>

\* A chat that was typed is answered aloud.
SpeechStarts ==
    /\ Tap
    /\ speaking' = TRUE
    /\ UNCHANGED <<mode, rec, aborted, waiting, turns, dictation, ends, starts>>

SpeechEnds ==
    /\ speaking
    /\ speaking' = FALSE
    /\ UNCHANGED <<mode, rec, aborted, waiting, turns, dictation, ends, taps, starts>>
-----------------------------------------------------------------------------
\* Mutant of Turn: the recognizer keeps its onend.
TurnChained ==
    /\ mode' = "active"
    /\ rec' = [rec EXCEPT !.stage = "stopping"]
    /\ turns' = turns + 1
    /\ UNCHANGED speaking

\* Voice._turn up to its await
Turn ==
    /\ mode' = "active"
    /\ rec' = Silenced(rec)
    /\ turns' = turns + 1
    /\ UNCHANGED speaking

\* An answer is spoken, and the recognizer ends by itself.
Say(m) ==
    /\ mode' = m
    /\ rec' = [rec EXCEPT !.stage = "stopping"]
    /\ speaking' = TRUE
    /\ UNCHANGED turns

\* Chatter is ignored.
Ignore ==
    /\ rec' = [rec EXCEPT !.stage = "stopping"]
    /\ UNCHANGED <<mode, speaking, turns>>

\* Voice._onResult: chatter or the wake word, alone or with a command; in a
\* conversation a dismissal, after which the button is found lit, or anything else.
OnResult ==
    /\ rec.stage = "listening"
    /\ \/ mode = "wake" /\ (Ignore \/ Turn \/ Say("active"))
       \/ mode = "active" /\ (Turn \/ Say("wake"))
    /\ UNCHANGED <<aborted, waiting, dictation, ends, taps, starts>>

\* Mutant of TurnDone: only what ends by itself is followed by another.
TurnDoneDeaf ==
    /\ turns > 0
    /\ turns' = turns - 1
    /\ \/ UNCHANGED speaking
       \/ speaking' = TRUE
    /\ UNCHANGED <<mode, rec, aborted, waiting, dictation, ends, taps, starts>>

\* The reply is there; if it has text, it is spoken.
TurnDone ==
    /\ turns > 0
    /\ turns' = turns - 1
    /\ \/ UNCHANGED speaking
       \/ speaking' = TRUE
    /\ Listen(mode, rec, aborted, ends)
    /\ UNCHANGED <<mode, waiting, taps, starts>>

\* afterSpeaking(() => this._listen()), when r has ended and `left` are to end
AfterSpeaking(r, left) ==
    IF speaking
    THEN /\ waiting' = waiting + 1
         /\ rec' = r
         /\ aborted' = left
         /\ UNCHANGED <<dictation, ends>>
    ELSE /\ Listen(mode, r, left, ends)
         /\ UNCHANGED waiting

\* The end of the current recognizer: it has heard something or nothing, or was
\* told to stop.
RecEnds ==
    /\ rec.stage # "ended"
    /\ IF rec.chained THEN AfterSpeaking(Ended, aborted)
       ELSE /\ rec' = Ended
            /\ UNCHANGED <<aborted, waiting, dictation, ends>>
    /\ UNCHANGED <<mode, turns, speaking, taps, starts>>

\* The end of one that was aborted
AbortedEnds ==
    /\ aborted > 0
    /\ AfterSpeaking(rec, aborted - 1)
    /\ UNCHANGED <<mode, turns, speaking, taps, starts>>

\* The timer of afterSpeaking finds that nothing is spoken.
Wait ==
    /\ waiting > 0 /\ ~ speaking
    /\ waiting' = waiting - 1
    /\ Listen(mode, rec, aborted, ends)
    /\ UNCHANGED <<mode, turns, speaking, taps, starts>>
-----------------------------------------------------------------------------
\* A microphone button: listen().  Voice is stopped, its recognizer is aborted
\* without an onend, and so is the dictation before.
Dictate ==
    /\ Tap
    /\ mode' = "off"
    /\ rec' = Ended
    /\ dictation' = mode
    /\ Take(ends)
    /\ UNCHANGED <<aborted, waiting, turns, speaking, starts>>

\* The dictation has been heard.
Dictated ==
    /\ dictation # NoDictation
    /\ dictation' = NoDictation
    /\ Take(ends)
    /\ UNCHANGED <<mode, rec, aborted, waiting, turns, speaking, taps, starts>>

\* Its onend
DictationEnds(m) ==
    /\ ends[m] > 0
    /\ LET left == [ends EXCEPT ![m] = @ - 1] IN
       IF m = "off"
       THEN /\ ends' = left
            /\ UNCHANGED <<mode, rec, aborted, dictation, starts>>
       ELSE Start(m, left)
    /\ UNCHANGED <<waiting, turns, speaking, taps>>

VoiceNext ==
    \/ TapWake \/ TapTalk \/ Dictate \/ SpeechStarts
    \/ OnResult \/ TurnDone \/ RecEnds \/ AbortedEnds \/ Wait
    \/ SpeechEnds \/ Dictated
    \/ \E m \in Modes : DictationEnds(m)

\* Recognizers, speech and replies end, and their callbacks and timers are run.
Fairness ==
    /\ WF_voiceVars(TurnDone) /\ WF_voiceVars(RecEnds) /\ WF_voiceVars(AbortedEnds) /\ WF_voiceVars(Wait)
    /\ WF_voiceVars(SpeechEnds) /\ WF_voiceVars(Dictated)
    /\ \A m \in Modes : WF_voiceVars(DictationEnds(m))

VoiceSpec == VoiceInit /\ [][VoiceNext]_voiceVars /\ Fairness
-----------------------------------------------------------------------------
\* After a tap that switches Voice off, and while something else is dictated, no
\* recognizer of Voice listens: no restart that was waiting for speech to end, no
\* reply that arrives late and no recognizer that was replaced brings one back.
QuietWhenOff == mode = "off" => rec.stage # "listening"

\* "One recognizer, restarted on each utterance" (app.js): a call of start() begins
\* one chain of recognizers; utterances, replies and restarts, however they overlap,
\* continue chains and never add one.
Chains == Count(rec.chained) + aborted + waiting + turns

OneListenerPerStart == Chains <= starts

\* While Voice is on it always listens again, through every turn, dismissal and
\* speech, as long as replies and speech come to an end.
ListensAgain == mode # "off" ~> (mode = "off" \/ rec.stage = "listening")
=============================================================================

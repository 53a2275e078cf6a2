---------------------------- MODULE ClientSession ----------------------------
(***************************************************************************)
(* The study session in the browser: the handlers of web/app.js, the       *)
(* buttons web/ui/session.js offers, the recorder of web/lib/audio.js and  *)
(* the calls of web/lib/api.js.  JavaScript runs one handler at a time and *)
(* lets others in at each await: an action is what runs between two        *)
(* awaits.  A handler goes on with the session object it began with, in    *)
(* whatever state the others have left it.                                 *)
(***************************************************************************)
EXTENDS Naturals, Sequences, FiniteSets

CONSTANTS
    Kinds,       \* the kinds of a session's tasks, in order: "speak" or "text"
    MaxSessions, \* bound: sessions the server composes, for an orderly learner
    MaxHasty,    \* and for one who is not
    Slots,       \* bound: handlers waiting at the same time, for an orderly learner
    HastySlots,  \* and for one who is not
    Recorders,   \* bound: recorders in use at the same time
    None,        \* no session, call or recorder
    Manners      \* the values that `orderly` may have

ASSUME ClientAssumption ==
    /\ Kinds \in Seq({"speak", "text"})
    /\ Len(Kinds) > 0
    /\ MaxSessions \in Nat
    /\ None \notin Slots \cup Recorders \cup (1 .. MaxSessions)
    /\ MaxHasty \in 0 .. MaxSessions
    /\ HastySlots \subseteq Slots
    /\ Manners \subseteq BOOLEAN

VARIABLES
    view,      \* state.view (settings, where no session runs, left out)
    current,   \* state.session: which session object, or None
    ses,       \* the session objects, 1 .. MaxSessions
    made,      \* sessions composed so far
    mic,       \* the recorders
    calls,     \* the handlers waiting for an answer or an event: slot -> call
    ended,     \* history: the sessions the server has ended
    dealt,     \* history: the tasks sent to the server or shown to have failed
    orderly    \* does the learner wait for answers before beginning anything new, and
               \* does the body of an answer arrive before the answer to a later call?

vars == <<view, current, ses, made, mic, calls, ended, dealt, orderly>>

Total == Len(Kinds)
New == [index |-> 1, checked |-> FALSE, verdict |-> 0, recording |-> FALSE,
        transcribing |-> FALSE, skipping |-> FALSE, offered |-> TRUE,
        recorder |-> None, abortCtl |-> None]
\* A recorder whose inner MediaRecorder is null: never started, or done with.
Gone == [st |-> "gone", of |-> None, at |-> 0]
Call(kind, s, i) == [kind |-> kind, of |-> s, for |-> i, rec |-> None,
                     ctl |-> None, cut |-> FALSE]

-----------------------------------------------------------------------------
(* Handlers that wait *)

\* A slot names the AbortController of the stopRecord that holds it.
FreeSlots == (IF orderly THEN Slots ELSE HastySlots)
             \ (DOMAIN calls \cup {calls[c].ctl : c \in DOMAIN calls})
Begin(c, call) == [x \in DOMAIN calls \cup {c} |-> IF x = c THEN call ELSE calls[x]]
Without(cs) == [x \in DOMAIN calls \ cs |-> calls[x]]
FreeRecorders == {m \in Recorders : /\ mic[m].st \in {"gone", "inactive"}
                                    /\ \A g \in DOMAIN ses : ses[g].recorder # m
                                    /\ \A c \in DOMAIN calls : calls[c].rec # m}

OnWire == {c \in DOMAIN calls : calls[c].kind \in {"start", "attempt", "skip", "end"}}
Prompts == {m \in Recorders : mic[m].st = "prompt"}
\* Whether the learner begins something new now.  Skip and Cancel are always free.
Willing == orderly => OnWire = {} /\ Prompts = {}

\* render(): the Skip button is enabled as the flags of the session shown say.
Drawn(o) == [o EXCEPT !.offered = ~ o.skipping]
\* Session object s becomes o, and the page is drawn again.
Write(s, o) == LET after == [ses EXCEPT ![s] = o]
               IN  ses' = IF current = None THEN after
                          ELSE [after EXCEPT ![current] = Drawn(@)]

S == ses[current]
\* Past the last task (a skip answered after another session came) nothing is drawn.
Shown(kind) == view = "session" /\ S.index <= Total /\ Kinds[S.index] = kind

\* Mutant: the flags of the task before are kept.
AdvancedKept(o) == [o EXCEPT !.index = @ + 1, !.recorder = None, !.abortCtl = None,
                             !.skipping = FALSE]

\* advance(): everything but the index starts over.
Advanced(o) == [New EXCEPT !.index = o.index + 1]

Init ==
    /\ view = "home"
    /\ current = None
    /\ ses = [s \in 1 .. MaxSessions |-> New]
    /\ made = 0
    /\ mic = [m \in Recorders |-> Gone]
    /\ calls = <<>>
    /\ ended = {}
    /\ dealt = {}
    /\ orderly \in Manners

-----------------------------------------------------------------------------
(* startSession *)

StartSession ==
    /\ view = "home"
    /\ Willing
    /\ \E c \in FreeSlots : calls' = Begin(c, Call("start", None, 0))
    /\ UNCHANGED <<view, current, ses, made, mic, ended, dealt>>

\* The composed session replaces whatever session there was.
Started(c) ==
    /\ calls[c].kind = "start"
    /\ made < IF orderly THEN MaxSessions ELSE MaxHasty
    /\ made' = made + 1
    /\ current' = made + 1
    /\ view' = "session"
    /\ calls' = Without({c})
    /\ UNCHANGED <<ses, mic, ended, dealt>>

\* No task is due, or the call failed.
NotStarted(c) ==
    /\ calls[c].kind = "start"
    /\ view' \in {view, "results"}
    /\ calls' = Without({c})
    /\ UNCHANGED <<current, ses, made, mic, ended, dealt>>

\* "Again" on the results page.
Again ==
    /\ view = "results"
    /\ view' = "home"
    /\ UNCHANGED <<current, ses, made, mic, calls, ended, dealt>>

-----------------------------------------------------------------------------
(* check: tasks answered in writing *)

Check ==
    /\ Shown("text")
    /\ ~ S.checked
    /\ Willing
    /\ \E c \in FreeSlots : calls' = Begin(c, Call("attempt", current, S.index))
    /\ dealt' = dealt \cup {<<current, S.index>>}
    /\ UNCHANGED <<view, current, ses, made, mic, ended>>

\* A session object with the verdict on task i shown.
Judged(o, i) == [o EXCEPT !.checked = TRUE, !.verdict = i]

Checked(c) ==
    /\ calls[c].kind = "attempt"
    /\ Write(calls[c].of, Judged(ses[calls[c].of], calls[c].for))
    /\ calls' = Without({c})
    /\ UNCHANGED <<view, current, made, mic, ended, dealt>>

CheckFailed(c) ==
    /\ calls[c].kind = "attempt"
    /\ calls' = Without({c})
    /\ UNCHANGED <<view, current, ses, made, mic, ended, dealt>>

-----------------------------------------------------------------------------
(* startRecord and stopRecord: tasks answered aloud *)

\* The Record button, also while Skip waits for the server or a microphone
\* prompt is open.
StartRecord ==
    /\ Shown("speak")
    /\ ~ S.recording /\ ~ S.transcribing /\ ~ S.checked
    /\ Willing
    /\ \E m \in FreeRecorders :
          /\ mic' = [mic EXCEPT ![m] = [st |-> "prompt", of |-> current, at |-> S.index]]
          /\ ses' = [ses EXCEPT ![current].recorder = m]
    /\ UNCHANGED <<view, current, made, calls, ended, dealt>>

\* getUserMedia resolves: the recorder runs, whatever came of its task.
MicGranted(m) ==
    /\ mic[m].st = "prompt"
    /\ mic' = [mic EXCEPT ![m].st = "on"]
    /\ Write(mic[m].of, [ses[mic[m].of] EXCEPT !.recording = TRUE])
    /\ UNCHANGED <<view, current, made, calls, ended, dealt>>

MicDenied(m) ==
    /\ mic[m].st = "prompt"
    /\ mic' = [mic EXCEPT ![m] = Gone]
    /\ UNCHANGED <<view, current, ses, made, calls, ended, dealt>>

\* Mutant: "finally" leaves the transcribing flag alone.
SettledStays(o) == [o EXCEPT !.abortCtl = None]

\* Mutant: "finally" leaves the controller of the finished call behind.
SettledKeepsCtl(o) == [o EXCEPT !.transcribing = FALSE]

\* The "finally" of stopRecord.
Settled(o) == [o EXCEPT !.transcribing = FALSE, !.abortCtl = None]

\* A recording is there, of audio taken for task i: s.recorder is dropped and
\* the task shown by now is uploaded, under the controller set by now.  With no
\* controller there is a TypeError, shown as a failed attempt.
Upload(c, s, i) ==
    LET o == [ses[s] EXCEPT !.recorder = None]
        ctl == o.abortCtl
    IN  IF ctl = None
        THEN /\ Write(s, Settled(Judged(o, i)))
             /\ calls' = Without({c})
             /\ dealt' = dealt \cup {<<s, i>>}
        ELSE IF calls[ctl].cut
        THEN /\ Write(s, Settled([o EXCEPT !.verdict = 0]))
             /\ calls' = Without({c})
             /\ UNCHANGED dealt
        ELSE /\ ses' = [ses EXCEPT ![s] = o]
             /\ calls' = Begin(c, [Call("speak", s, i) EXCEPT !.ctl = ctl])
             /\ dealt' = dealt \cup {<<s, o.index>>}

Silent(ms) == [m \in Recorders |-> IF m \in ms THEN [mic[m] EXCEPT !.st = "inactive"]
                                   ELSE mic[m]]

\* stopRecord up to its first await; the MediaRecorders ms stop as well.
StopRecording(ms) ==
    LET m == S.recorder
        o == [S EXCEPT !.recording = FALSE]
    IN  /\ m # None
        /\ ~ S.transcribing
        /\ IF mic[m].st \in {"on", "inactive"}
           THEN \E c \in FreeSlots :
                   /\ calls' = Begin(c, [Call("stop", current, mic[m].at)
                                            EXCEPT !.rec = m, !.ctl = c])
                   /\ mic' = Silent(ms \cup {m})
                   /\ Write(current, [o EXCEPT !.transcribing = TRUE, !.abortCtl = c])
                   /\ UNCHANGED dealt
           ELSE /\ Write(current, Settled(Judged(o, S.index)))
                /\ mic' = Silent(ms)
                /\ dealt' = dealt \cup {<<current, S.index>>}
                /\ UNCHANGED calls

\* The Stop button.
StopRecord ==
    /\ Shown("speak")
    /\ S.recording /\ ~ S.checked
    /\ StopRecording({})
    /\ UNCHANGED <<view, current, made, ended>>

\* Does the auto-stop of recorder m stop the recording of the session shown?
Stops(m) ==
    /\ current = mic[m].of
    /\ S.recording
    /\ ~ S.transcribing
    /\ S.recorder # None

\* Twenty seconds after it began: onAutoStop, then the MediaRecorder's own stop.
AutoStop(m) ==
    /\ mic[m].st = "on"
    /\ IF Stops(m)
       THEN StopRecording({m})
       ELSE mic' = Silent({m}) /\ UNCHANGED <<ses, calls, dealt>>
    /\ UNCHANGED <<view, current, made, ended>>

\* The "stop" event of the MediaRecorder a stopRecord waits for.
StopEvent(c) ==
    /\ calls[c].kind = "stop"
    /\ mic' = [mic EXCEPT ![calls[c].rec] = Gone]
    /\ Upload(c, calls[c].of, calls[c].for)
    /\ UNCHANGED <<view, current, made, ended>>

\* Its "error" event.
StopFailed(c) ==
    /\ calls[c].kind = "stop"
    /\ Write(calls[c].of, Settled(Judged(ses[calls[c].of], calls[c].for)))
    /\ calls' = Without({c})
    /\ dealt' = dealt \cup {<<calls[c].of, calls[c].for>>}
    /\ UNCHANGED <<view, current, made, mic, ended>>

\* The header of the answer to the upload: from here on neither the timeout nor
\* the session's controller reaches it.
Answering(c) ==
    /\ calls[c].kind = "speak"
    /\ calls' = [calls EXCEPT ![c].kind = "read"]
    /\ UNCHANGED <<view, current, ses, made, mic, ended, dealt>>

\* The verdict on the upload, or an error shown as one.
Transcribed(c) ==
    /\ calls[c].kind \in {"speak", "read"}
    /\ Write(calls[c].of, Settled(Judged(ses[calls[c].of], calls[c].for)))
    /\ calls' = Without({c})
    /\ UNCHANGED <<view, current, made, mic, ended, dealt>>

\* AbortError: the learner may try again.
Aborted(s) == Settled([ses[s] EXCEPT !.verdict = 0])

\* speakAttempt gives up after 45 s.
TimedOut(c) ==
    /\ calls[c].kind = "speak"
    /\ Write(calls[c].of, Aborted(calls[c].of))
    /\ calls' = Without({c})
    /\ UNCHANGED <<view, current, made, mic, ended, dealt>>

\* The uploads the session's controller can still abort.
Uploads == {c \in DOMAIN calls : /\ calls[c].kind = "speak"
                                 /\ calls[c].ctl = S.abortCtl}

\* cancelTranscribe: an upload ends at once; one yet to come is aborted as it begins.
CancelTranscribe ==
    /\ Shown("speak")
    /\ S.transcribing
    /\ S.abortCtl # None
    /\ IF Uploads # {}
       THEN /\ Write(current, Aborted(current))
            /\ calls' = Without(Uploads)
       ELSE /\ calls' = [calls EXCEPT ![S.abortCtl].cut = TRUE]
            /\ UNCHANGED ses
    /\ UNCHANGED <<view, current, made, mic, ended, dealt>>

-----------------------------------------------------------------------------
(* skip, advance and finish *)

\* Mutant: the upload under way is left alone.
TornKept == {}

\* The handlers the tear-down of skip() does away with: the uploads it aborts,
\* and the stopRecord whose recorder it cancels, whose promise never settles.
Torn == Uploads \cup {c \in DOMAIN calls : /\ calls[c].kind = "stop"
                                           /\ calls[c].rec = S.recorder}

Skip ==
    /\ Shown("speak")
    /\ ~ S.checked /\ S.offered /\ ~ S.skipping
    /\ \E c \in FreeSlots :
          calls' = [x \in DOMAIN Without(Torn) \cup {c} |->
                       IF x = c THEN Call("skip", current, S.index) ELSE calls[x]]
    /\ mic' = [m \in Recorders |-> IF m = S.recorder /\ mic[m].st # "prompt" THEN Gone
                                   ELSE mic[m]]
    /\ Write(current, [S EXCEPT !.skipping = TRUE, !.recorder = None, !.abortCtl = None,
                                !.recording = FALSE, !.transcribing = FALSE])
    /\ dealt' = dealt \cup {<<current, S.index>>}
    /\ UNCHANGED <<view, current, made, ended>>

\* skipTask returned or failed, which is all the same to skip(): on to the next
\* task of the session shown by now, or to its end.
Skipped(c) ==
    LET s == calls[c].of
        after == [ses EXCEPT ![s].skipping = FALSE]
    IN  /\ calls[c].kind = "skip"
        /\ orderly => \A x \in DOMAIN calls : calls[x].kind # "read"
        /\ IF current = None
           THEN ses' = after /\ calls' = Without({c})
           ELSE IF ses[s].index < Total
           THEN /\ ses' = [after EXCEPT ![current] = Advanced(@)]
                /\ calls' = Without({c})
           ELSE ses' = after /\ calls' = [calls EXCEPT ![c] = Call("end", current, 0)]
        /\ UNCHANGED <<view, current, made, mic, ended, dealt>>

Advance ==
    /\ view = "session"
    /\ S.checked
    /\ S.index < Total
    /\ Willing
    /\ ses' = [ses EXCEPT ![current] = Advanced(@)]
    /\ UNCHANGED <<view, current, made, mic, calls, ended, dealt>>

Finish ==
    /\ view = "session"
    /\ S.checked
    /\ S.index >= Total
    /\ Willing
    /\ \E c \in FreeSlots : calls' = Begin(c, Call("end", current, 0))
    /\ UNCHANGED <<view, current, ses, made, mic, ended, dealt>>

\* endSession answered: no session is shown any more, whichever it is by now.
Finished(c) ==
    /\ calls[c].kind = "end"
    /\ ended' = ended \cup {calls[c].of}
    /\ current' = None
    /\ view' = "results"
    /\ calls' = Without({c})
    /\ UNCHANGED <<ses, made, mic, dealt>>

\* Mutant: the results are shown whether or not the session could be ended.
FinishFailedShows(c) ==
    /\ calls[c].kind = "end"
    /\ ended' \in {ended, ended \cup {calls[c].of}}
    /\ current' = None
    /\ view' = "results"
    /\ calls' = Without({c})
    /\ UNCHANGED <<ses, made, mic, dealt>>

\* The call failed before or after the server took it.
FinishFailed(c) ==
    /\ calls[c].kind = "end"
    /\ ended' \in {ended, ended \cup {calls[c].of}}
    /\ calls' = Without({c})
    /\ UNCHANGED <<view, current, ses, made, mic, dealt>>

-----------------------------------------------------------------------------
\* A waiting handler goes on: fetch settles, the recorder's event comes.
Resume(c) ==
    /\ \/ Started(c) \/ NotStarted(c)
       \/ Checked(c) \/ CheckFailed(c)
       \/ StopEvent(c) \/ StopFailed(c) \/ Answering(c) \/ Transcribed(c) \/ TimedOut(c)
       \/ Skipped(c)
       \/ Finished(c) \/ FinishFailed(c)
    /\ UNCHANGED orderly

Learner ==
    /\ \/ StartSession \/ Again
       \/ Check
       \/ StartRecord \/ StopRecord \/ CancelTranscribe
       \/ Skip \/ Advance \/ Finish
    /\ UNCHANGED orderly

Prompt(m) == (MicGranted(m) \/ MicDenied(m)) /\ UNCHANGED orderly
Timer(m) == AutoStop(m) /\ UNCHANGED orderly

Next ==
    \/ Learner
    \/ \E c \in DOMAIN calls : Resume(c)
    \/ \E m \in Recorders : Prompt(m) \/ Timer(m)

Spec == Init /\ [][Next]_vars

\* Neither the learner nor the microphone prompt owes anything; timers fire and
\* calls settle.
Fairness ==
    /\ \A c \in Slots : WF_vars(c \in DOMAIN calls /\ Resume(c))
    /\ \A m \in Recorders : WF_vars(Timer(m))
FairSpec == Spec /\ Fairness

-----------------------------------------------------------------------------
(* What must hold *)

SessionIds == 1 .. MaxSessions
Places == Nat \ {0}
Object == [index : Places, checked : BOOLEAN, verdict : Nat,
           recording : BOOLEAN, transcribing : BOOLEAN, skipping : BOOLEAN,
           offered : BOOLEAN, recorder : Recorders \cup {None},
           abortCtl : Slots \cup {None}]
Waiting == [kind : {"start", "attempt", "stop", "speak", "read", "skip", "end"},
            of : SessionIds \cup {None}, for : Nat,
            rec : Recorders \cup {None}, ctl : Slots \cup {None}, cut : BOOLEAN]

\* The page's state has its shape: a session is shown only when there is one, a
\* controller that could be aborted belongs to a handler still waiting, and only a
\* skip answered after another session came steps past the last task.
TypeOK ==
    /\ view \in {"home", "session", "results"}
    /\ made \in 0 .. MaxSessions
    /\ current \in (1 .. made) \cup {None}
    /\ view = "session" => current # None
    /\ ses \in [SessionIds -> Object]
    /\ mic \in [Recorders -> [st : {"gone", "prompt", "on", "inactive"},
                              of : SessionIds \cup {None}, at : Nat]]
    /\ DOMAIN calls \subseteq Slots
    /\ \A c \in DOMAIN calls : calls[c] \in Waiting
    /\ \A s \in SessionIds : ses[s].abortCtl \in DOMAIN calls \cup {None}
    /\ ended \subseteq 1 .. made
    /\ dealt \subseteq SessionIds \X Places
    /\ orderly \in Manners
    /\ orderly => \A s \in SessionIds : ses[s].index <= Total

VerdictFits == view = "session" /\ S.checked => S.verdict \in {0, S.index}

\* With a learner who waits for answers, the verdict shown is the verdict on the
\* task shown, also when Skip cuts a recording or an upload short (check,
\* startRecord, stopRecord and skip each write into whatever task is shown).
VerdictOfItsTask == orderly => VerdictFits

\* The client leaves an orderly learner's task behind only when the server was
\* sent an answer or a skip for it, or it has shown an error in place of the
\* verdict; and it moves one task at a time (advance is called from the Next
\* button and at the end of skip).
NoTaskPassedOver ==
    [][orderly => \A s \in SessionIds : ses'[s].index # ses[s].index =>
          /\ ses'[s].index = ses[s].index + 1
          /\ <<s, ses[s].index>> \in dealt]_vars

\* A session leaves an orderly learner's page only when the server has ended it
\* (finish), so no session is left open behind one that is under way.
LeftOnlyWhenEnded ==
    orderly => \A s \in 1 .. made : s # current => s \in ended

\* "Without a cap a stuck recorder ... leaves the UI hanging" (audio.js): the
\* page never stays at transcribing, whatever was cancelled or skipped.  Given is the
\* environment's part (Fairness): a fetch settles and a stopped recorder has its event.
TranscribingEnds ==
    \A s \in SessionIds : ses[s].transcribing ~> ~ ses[s].transcribing

(* What the source says and does not do. *)

\* app.js, skip: "Tear down any in-flight recording or upload first so we don't
\* race with their completion handlers writing into s.lastResult / s.checked."
SkipTearsDown == VerdictFits

\* audio.js: the cap on a recording is there so that "a stuck recorder or a
\* forgotten tap" does not leave the page recording.
RecordingEnds ==
    \A s \in SessionIds : (s = current /\ ses[s].recording)
                          ~> ~ (s = current /\ ses[s].recording)
=============================================================================

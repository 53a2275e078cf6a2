------------------------- MODULE ClientSessionProofs -------------------------
(* What holds of the page for every list of tasks, and any number of sessions, *)
(* handlers and recorders.                                                     *)
EXTENDS ClientSession, TLAPS

(* The objects and the records *)

\* The flags of two session objects are the same, but for how Skip was drawn.
Alike(p, q) ==
    /\ p.index = q.index /\ p.checked = q.checked /\ p.verdict = q.verdict
    /\ p.recording = q.recording /\ p.transcribing = q.transcribing
    /\ p.skipping = q.skipping /\ p.recorder = q.recorder /\ p.abortCtl = q.abortCtl

Has(p, index, checked, verdict, recording, transcribing, skipping, recorder, abortCtl) ==
    /\ p.index = index /\ p.checked = checked /\ p.verdict = verdict
    /\ p.recording = recording /\ p.transcribing = transcribing
    /\ p.skipping = skipping /\ p.recorder = recorder /\ p.abortCtl = abortCtl

LEMMA DrawnAlike ==
    ASSUME NEW o \in Object
    PROVE  Drawn(o) \in Object /\ Alike(Drawn(o), o)
BY DEF Drawn, Object, Alike

LEMMA NewShape == New \in Object
BY DEF New, Object, Places

LEMMA AdvancedShape ==
    ASSUME NEW o \in Object
    PROVE  /\ Advanced(o) \in Object
           /\ Advanced(o).index = o.index + 1
           /\ Advanced(o).recorder = None /\ Advanced(o).abortCtl = None
           /\ ~ Advanced(o).checked /\ ~ Advanced(o).recording
           /\ ~ Advanced(o).transcribing /\ ~ Advanced(o).skipping
<1>1. o.index \in Nat /\ o.index + 1 \in Places BY DEF Object, Places
<1>2. New \in Object /\ New.recorder = None /\ New.abortCtl = None /\ ~ New.checked
      /\ ~ New.recording /\ ~ New.transcribing /\ ~ New.skipping
    BY NewShape DEF New
<1> HIDE DEF New
<1> QED BY <1>1, <1>2 DEF Advanced, Object

LEMMA JudgedShape ==
    ASSUME NEW o \in Object, NEW i \in Nat
    PROVE  /\ Judged(o, i) \in Object
           /\ Has(Judged(o, i), o.index, TRUE, i, o.recording, o.transcribing, o.skipping,
                  o.recorder, o.abortCtl)
BY DEF Judged, Object, Has

LEMMA SettledShape ==
    ASSUME NEW o \in Object
    PROVE  /\ Settled(o) \in Object
           /\ Has(Settled(o), o.index, o.checked, o.verdict, o.recording, FALSE, o.skipping,
                  o.recorder, None)
BY DEF Settled, Object, Has

LEMMA Written ==
    ASSUME NEW s \in SessionIds, NEW o \in Object, ses \in [SessionIds -> Object],
           current \in SessionIds \cup {None}, Write(s, o)
    PROVE  /\ ses' \in [SessionIds -> Object]
           /\ Alike(ses'[s], o)
           /\ \A x \in SessionIds \ {s} : Alike(ses'[x], ses[x])
<1> DEFINE after == [ses EXCEPT ![s] = o]
<1>1. after \in [SessionIds -> Object] /\ after[s] = o /\ \A x \in SessionIds \ {s} : after[x] = ses[x]
    OBVIOUS
<1>2. CASE current = None
    <2>1. ses' = after BY <1>2 DEF Write
    <2> QED BY <1>1, <2>1 DEF Alike
<1>3. CASE current # None
    <2>1. current \in SessionIds BY <1>3
    <2>2. ses' = [after EXCEPT ![current] = Drawn(after[current])]
        BY <1>3 DEF Write
    <2>3. after[current] \in Object BY <2>1, <1>1
    <2> HIDE DEF after
    <2>4. Drawn(after[current]) \in Object /\ Alike(Drawn(after[current]), after[current])
        BY <2>3, DrawnAlike
    <2>5. ses' \in [SessionIds -> Object] BY <2>2, <2>4, <1>1
    <2>6. \A x \in SessionIds : Alike(ses'[x], after[x])
        BY <2>2, <2>4, <1>1 DEF Alike
    <2> QED BY <2>5, <2>6, <1>1 DEF Alike
<1> QED BY <1>2, <1>3

LEMMA CallShape ==
    ASSUME NEW k \in {"start", "attempt", "stop", "speak", "read", "skip", "end"},
           NEW s \in SessionIds \cup {None}, NEW i \in Nat
    PROVE  /\ Call(k, s, i) \in Waiting
           /\ Call(k, s, i).kind = k /\ Call(k, s, i).of = s /\ Call(k, s, i).for = i
           /\ Call(k, s, i).rec = None /\ Call(k, s, i).ctl = None /\ ~ Call(k, s, i).cut
BY DEF Call, Waiting

LEMMA Begun ==
    ASSUME NEW c, NEW call, calls' = Begin(c, call)
    PROVE  /\ DOMAIN calls' = DOMAIN calls \cup {c}
           /\ calls'[c] = call
           /\ \A x \in DOMAIN calls' : x # c => x \in DOMAIN calls /\ calls'[x] = calls[x]
BY DEF Begin

LEMMA Left ==
    ASSUME NEW cs, calls' = Without(cs)
    PROVE  /\ DOMAIN calls' = DOMAIN calls \ cs
           /\ \A x \in DOMAIN calls' : calls'[x] = calls[x]
BY DEF Without

-----------------------------------------------------------------------------
(* Which handler has which session, recorder and controller *)

Audio == {c \in DOMAIN calls : calls[c].kind \in {"stop", "speak", "read"}}

\* TypeOK, but for what needs a proof of its own.
Shape ==
    /\ view \in {"home", "session", "results"}
    /\ made \in 0 .. MaxSessions
    /\ current \in (1 .. made) \cup {None}
    /\ view = "session" => current # None
    /\ ses \in [SessionIds -> Object]
    /\ mic \in [Recorders -> [st : {"gone", "prompt", "on", "inactive"},
                              of : SessionIds \cup {None}, at : Nat]]
    /\ DOMAIN calls \subseteq Slots
    /\ \A c \in DOMAIN calls : calls[c] \in Waiting
    /\ ended \subseteq 1 .. made
    /\ dealt \subseteq SessionIds \X Places
    /\ orderly \in Manners

HandlersOfSessions ==
    /\ \A c \in DOMAIN calls : calls[c].kind # "start" => calls[c].of \in 1 .. made
    /\ \A c \in Audio : /\ calls[c].ctl # None /\ calls[c].for \in Places
                        /\ calls[c].kind = "stop" => calls[c].rec # None
    /\ \A m \in Recorders : mic[m].st # "gone" => /\ mic[m].of \in 1 .. made
                                                  /\ mic[m].at \in Places

\* A controller that could be aborted is a waiting handler's of the same session, and
\* so are the uploads it reaches.
Controllers ==
    \A s \in SessionIds : ses[s].abortCtl # None =>
        /\ ses[s].abortCtl \in Audio
        /\ calls[ses[s].abortCtl].of = s
        /\ \A c \in Audio : calls[c].ctl = ses[s].abortCtl => calls[c].of = s

\* A recorder is one session's.
RecordersApart ==
    \A s \in SessionIds : ses[s].recorder # None =>
        /\ \A t \in SessionIds : ses[t].recorder = ses[s].recorder => t = s
        /\ \A c \in Audio : calls[c].kind = "stop" /\ calls[c].rec = ses[s].recorder
                            => calls[c].of = s

Unmade == \A s \in SessionIds : s > made => Alike(ses[s], New)

Links == HandlersOfSessions /\ Controllers /\ RecordersApart /\ Unmade

\* A step that begins no recording and no upload.
LEMMA LinksKept ==
    ASSUME Shape, Links, Shape',
           \A c \in Audio' : /\ c \in Audio
                             /\ calls'[c].of = calls[c].of /\ calls'[c].for = calls[c].for
                             /\ calls'[c].ctl = calls[c].ctl
                             /\ calls'[c].kind = "stop" => calls[c].kind = "stop"
                                                         /\ calls'[c].rec = calls[c].rec,
           \A c \in DOMAIN calls' : calls'[c].kind # "start" => calls'[c].of \in 1 .. made',
           \A m \in Recorders : mic'[m].st # "gone" => /\ mic'[m].of \in 1 .. made'
                                                       /\ mic'[m].at \in Places,
           \A s \in SessionIds : /\ ses'[s].recorder \in {None, ses[s].recorder}
                                 /\ ses'[s].abortCtl \in {None, ses[s].abortCtl}
                                 /\ ses'[s].abortCtl # None => ses'[s].abortCtl \in Audio',
           Unmade'
    PROVE  Links'
<1>1. HandlersOfSessions' BY DEF Links, HandlersOfSessions
<1>2. Controllers' BY DEF Links, Controllers
<1>3. RecordersApart' BY DEF Links, RecordersApart
<1> QED BY <1>1, <1>2, <1>3 DEF Links

-----------------------------------------------------------------------------
(* Each step keeps the links *)

LEMMA StartSessionLinks ==
    ASSUME Shape, Links, StartSession, orderly' = orderly
    PROVE  Shape' /\ Links'
<1>1. PICK c \in FreeSlots : calls' = Begin(c, Call("start", None, 0))
    BY DEF StartSession
<1>2. c \in Slots /\ c \notin DOMAIN calls
    BY ClientAssumption DEF FreeSlots
<1>3. /\ Call("start", None, 0) \in Waiting
      /\ Call("start", None, 0).kind = "start"
    BY CallShape
<1>6. /\ DOMAIN calls' = DOMAIN calls \cup {c}
      /\ calls'[c].kind = "start" /\ calls'[c] \in Waiting
      /\ \A x \in DOMAIN calls : x # c => calls'[x] = calls[x]
    <2> DEFINE call == Call("start", None, 0)
    <2>1. calls' = Begin(c, call) BY <1>1
    <2>2. call \in Waiting /\ call.kind = "start" BY <1>3
    <2> HIDE DEF call
    <2>3. /\ DOMAIN calls' = DOMAIN calls \cup {c} /\ calls'[c] = call
          /\ \A x \in DOMAIN calls' : x # c => x \in DOMAIN calls /\ calls'[x] = calls[x]
        BY <2>1, Begun, Zenon
    <2> QED BY <2>2, <2>3
<1>4. Shape' BY <1>2, <1>6 DEF StartSession, Shape
<1>5. Audio' = Audio /\ \A x \in Audio : calls'[x] = calls[x]
    BY <1>2, <1>6 DEF Audio
<1> QED BY <1>2, <1>4, <1>5, <1>6, LinksKept
    DEF Links, HandlersOfSessions, Controllers, Unmade, StartSession

LEMMA StartedLinks ==
    ASSUME Shape, Links, NEW c \in DOMAIN calls, Started(c), orderly' = orderly
    PROVE  Shape' /\ Links'
<1>1. made + 1 \in 1 .. MaxSessions /\ made \in Nat
    BY ClientAssumption DEF Started, Shape
<1>4. DOMAIN calls' = DOMAIN calls \ {c} /\ \A x \in DOMAIN calls' : calls'[x] = calls[x]
    BY Left DEF Started
<1>8. /\ made' = made + 1 /\ current' = made + 1 /\ view' = "session"
      /\ UNCHANGED <<ses, mic, ended, dealt>>
    BY DEF Started
<1>9. made' \in 0 .. MaxSessions /\ 1 .. made \subseteq 1 .. made'
      /\ current' \in 1 .. made' /\ current' # None
    BY <1>1, <1>8, ClientAssumption
<1>2. Shape' BY <1>4, <1>8, <1>9 DEF Shape
<1>3. Audio' = Audio /\ \A x \in Audio : calls'[x] = calls[x]
    BY <1>4 DEF Started, Audio
<1>5. /\ \A x \in DOMAIN calls' : calls'[x].kind # "start" => calls'[x].of \in 1 .. made'
      /\ \A m \in Recorders : mic'[m].st # "gone" => /\ mic'[m].of \in 1 .. made'
                                                     /\ mic'[m].at \in Places
    BY <1>4, <1>8, <1>9 DEF Links, HandlersOfSessions
<1>6. Unmade' BY <1>1 DEF Started, Links, Unmade, SessionIds
<1>7. \A s \in SessionIds : ses[s].abortCtl # None => ses[s].abortCtl \in Audio'
    BY <1>3 DEF Links, Controllers
<1> QED BY <1>2, <1>3, <1>5, <1>6, <1>7, LinksKept DEF Started

\* A handler that holds no recording is done, and the sessions stay as they are.
LEMMA DoneLinks ==
    ASSUME Shape, Links, NEW c \in DOMAIN calls, c \notin Audio, calls' = Without({c}),
           UNCHANGED <<ses, mic, made>>, Shape'
    PROVE  Links'
<1>0. DOMAIN calls' = DOMAIN calls \ {c} /\ \A x \in DOMAIN calls' : calls'[x] = calls[x]
    BY Left
<1>1. Audio' = Audio /\ \A x \in Audio : calls'[x] = calls[x]
    BY <1>0 DEF Audio
<1> QED BY <1>0, <1>1, LinksKept
    DEF Links, HandlersOfSessions, Controllers, Unmade

LEMMA NotStartedLinks ==
    ASSUME Shape, Links, NEW c \in DOMAIN calls, NotStarted(c), orderly' = orderly
    PROVE  Shape' /\ Links'
<1>1. Shape' BY Left DEF NotStarted, Shape
<1> QED BY <1>1, DoneLinks DEF NotStarted, Audio

LEMMA CheckFailedLinks ==
    ASSUME Shape, Links, NEW c \in DOMAIN calls, CheckFailed(c), orderly' = orderly
    PROVE  Shape' /\ Links'
<1>1. Shape' BY Left DEF CheckFailed, Shape
<1> QED BY <1>1, DoneLinks DEF CheckFailed, Audio

LEMMA FinishedLinks ==
    ASSUME Shape, Links, NEW c \in DOMAIN calls, Finished(c) \/ FinishFailed(c),
           orderly' = orderly
    PROVE  Shape' /\ Links'
<1>1. calls[c].of \in 1 .. made
    BY DEF Links, HandlersOfSessions, Finished, FinishFailed
<1>2. Shape' BY <1>1, Left DEF Finished, FinishFailed, Shape
<1> QED BY <1>2, DoneLinks DEF Finished, FinishFailed, Audio

LEMMA AgainLinks ==
    ASSUME Shape, Links, Again, orderly' = orderly
    PROVE  Shape' /\ Links'
<1>1. Shape' BY DEF Again, Shape
<1> QED BY <1>1 DEF Again, Links, HandlersOfSessions, Controllers, RecordersApart, Unmade, Audio

\* A handler begins that is to wait for an answer to `call`.
LEMMA SentLinks ==
    ASSUME Shape, Links, NEW c \in FreeSlots, NEW k \in {"attempt", "end"}, NEW i \in Nat,
           current # None, calls' = Begin(c, Call(k, current, i)),
           UNCHANGED <<view, made, current, ses, mic, ended, orderly>>,
           dealt' \subseteq SessionIds \X Places
    PROVE  Shape' /\ Links'
<1>0. calls' = Begin(c, Call(k, current, i)) OBVIOUS
<1>1. c \in Slots /\ c \notin DOMAIN calls
    BY ClientAssumption DEF FreeSlots
<1>2. current \in 1 .. made /\ current \in SessionIds
    BY ClientAssumption DEF Shape, SessionIds
<1>3. /\ Call(k, current, i) \in Waiting
      /\ Call(k, current, i).kind = k /\ Call(k, current, i).of = current
    BY <1>2, CallShape
<1>6. /\ DOMAIN calls' = DOMAIN calls \cup {c}
      /\ calls'[c].kind = k /\ calls'[c] \in Waiting /\ calls'[c].of = current
      /\ \A x \in DOMAIN calls : x # c => calls'[x] = calls[x]
    <2> DEFINE call == Call(k, current, i)
    <2>1. calls' = Begin(c, call) BY <1>0
    <2>2. call \in Waiting /\ call.kind = k /\ call.of = current BY <1>3
    <2> HIDE DEF call
    <2>3. /\ DOMAIN calls' = DOMAIN calls \cup {c} /\ calls'[c] = call
          /\ \A x \in DOMAIN calls' : x # c => x \in DOMAIN calls /\ calls'[x] = calls[x]
        BY <2>1, Begun, Zenon
    <2> QED BY <2>2, <2>3
<1>4. Shape' BY <1>1, <1>6 DEF Shape
<1>5. Audio' = Audio /\ \A x \in Audio : calls'[x] = calls[x]
    BY <1>1, <1>6 DEF Audio
<1> QED BY <1>1, <1>2, <1>4, <1>5, <1>6, LinksKept
    DEF Links, HandlersOfSessions, Controllers, Unmade

LEMMA ShownObject ==
    ASSUME Shape, view = "session"
    PROVE  /\ current \in 1 .. made /\ current \in SessionIds /\ current # None
           /\ S \in Object /\ S.index \in Places /\ S.index \in Nat
BY ClientAssumption DEF Shape, SessionIds, S, Object, Places

LEMMA CheckLinks ==
    ASSUME Shape, Links, Check, orderly' = orderly
    PROVE  Shape' /\ Links'
<1>1. PICK c \in FreeSlots : calls' = Begin(c, Call("attempt", current, S.index))
    BY DEF Check
<1>2. dealt' \subseteq SessionIds \X Places
    BY ShownObject DEF Check, Shown, Shape
<1> QED BY <1>1, <1>2, ShownObject, SentLinks DEF Check, Shown

LEMMA FinishLinks ==
    ASSUME Shape, Links, Finish, orderly' = orderly
    PROVE  Shape' /\ Links'
<1>1. PICK c \in FreeSlots : calls' = Begin(c, Call("end", current, 0))
    BY DEF Finish
<1> QED BY <1>1, ShownObject, SentLinks DEF Finish, Shape
Mics == [Recorders -> [st : {"gone", "prompt", "on", "inactive"},
                       of : SessionIds \cup {None}, at : Nat]]

\* Recorders may go on or stop, but none begins.
MicsQuiet ==
    /\ mic' \in Mics
    /\ \A m \in Recorders : mic'[m].st # "gone" => /\ mic[m].st # "gone"
                                                   /\ mic'[m].of = mic[m].of
                                                  /\ mic'[m].at = mic[m].at

\* Handlers may be done and others begin, but none that records; one with a recording
\* that is done leaves its session without a controller.
CallsQuiet ==
    /\ DOMAIN calls' \subseteq Slots
    /\ \A x \in DOMAIN calls' :
          \/ x \in DOMAIN calls /\ calls'[x] = calls[x]
          \/ /\ calls'[x] \in Waiting
             /\ calls'[x].kind \in {"attempt", "skip", "end"}
             /\ calls'[x].of \in 1 .. made
    /\ \A x \in Audio : \/ x \in DOMAIN calls' /\ calls'[x] = calls[x]
                        \/ ses'[calls[x].of].abortCtl = None

LEMMA QuietLinks ==
    ASSUME Shape, Links, MicsQuiet, CallsQuiet,
           UNCHANGED <<made, current, ended, orderly>>,
           view' = view,
           dealt' \subseteq SessionIds \X Places,
           ses' \in [SessionIds -> Object],
           \A s \in SessionIds : /\ ses'[s].recorder \in {None, ses[s].recorder}
                                 /\ ses'[s].abortCtl \in {None, ses[s].abortCtl}
                                 /\ s > made => Alike(ses'[s], ses[s])
    PROVE  Shape' /\ Links'
<1>1. Shape'
    <2>1. \A c \in DOMAIN calls' : calls'[c] \in Waiting BY DEF CallsQuiet, Shape
    <2> QED BY <2>1 DEF Shape, MicsQuiet, CallsQuiet, Mics
<1>2. \A c \in Audio' : c \in Audio /\ calls'[c] = calls[c]
    BY DEF Audio, CallsQuiet
<1>3. \A c \in DOMAIN calls' : calls'[c].kind # "start" => calls'[c].of \in 1 .. made'
    BY DEF CallsQuiet, Links, HandlersOfSessions
<1>4. \A m \in Recorders : mic'[m].st # "gone" => /\ mic'[m].of \in 1 .. made'
                                                  /\ mic'[m].at \in Places
    BY DEF MicsQuiet, Links, HandlersOfSessions
<1>5. ASSUME NEW s \in SessionIds, ses'[s].abortCtl # None
      PROVE  ses'[s].abortCtl \in Audio'
    <2>1. ses'[s].abortCtl = ses[s].abortCtl BY <1>5
    <2>2. ses[s].abortCtl \in Audio /\ calls[ses[s].abortCtl].of = s
        BY <1>5, <2>1 DEF Links, Controllers
    <2>3. ses[s].abortCtl \in DOMAIN calls' /\ calls'[ses[s].abortCtl] = calls[ses[s].abortCtl]
        BY <1>5, <2>2 DEF CallsQuiet
    <2> QED BY <2>1, <2>2, <2>3 DEF Audio
<1>6. Unmade' BY DEF Links, Unmade, Alike
<1> QED BY <1>1, <1>2, <1>3, <1>4, <1>5, <1>6, LinksKept

\* No session moves to another task.
InPlace == \A s \in SessionIds : ses'[s].index = ses[s].index

LEMMA WriteLinks ==
    ASSUME Shape, Links, NEW s \in 1 .. made, NEW o \in Object, Write(s, o), o.index = ses[s].index,
           o.recorder \in {None, ses[s].recorder},
           o.abortCtl \in {None, ses[s].abortCtl},
           MicsQuiet, CallsQuiet,
           UNCHANGED <<view, made, current, ended, orderly>>,
           dealt' \subseteq SessionIds \X Places
    PROVE  Shape' /\ Links' /\ InPlace
<1>1. s \in SessionIds /\ current \in SessionIds \cup {None}
    BY ClientAssumption DEF Shape, SessionIds
<1>2. /\ ses' \in [SessionIds -> Object]
      /\ Alike(ses'[s], o)
      /\ \A x \in SessionIds \ {s} : Alike(ses'[x], ses[x])
    BY <1>1, Written DEF Shape
<1>3. \A x \in SessionIds : /\ ses'[x].recorder \in {None, ses[x].recorder}
                            /\ ses'[x].abortCtl \in {None, ses[x].abortCtl}
                            /\ x > made => Alike(ses'[x], ses[x])
                            /\ ses'[x].index = ses[x].index
    BY <1>1, <1>2, ClientAssumption DEF Alike, SessionIds, Shape
<1> QED BY <1>2, <1>3, QuietLinks DEF InPlace

\* The handler of session calls[c].of ends, with its controller if it has one.
LEMMA WriteAndLeave ==
    ASSUME Shape, Links, NEW c \in DOMAIN calls, calls[c].kind # "start",
           NEW o \in Object, Write(calls[c].of, o), calls' = Without({c}),
           o.index = ses[calls[c].of].index,
           o.recorder \in {None, ses[calls[c].of].recorder},
           \/ c \notin Audio /\ o.abortCtl = ses[calls[c].of].abortCtl
           \/ o.abortCtl = None,
           MicsQuiet,
           UNCHANGED <<view, made, current, ended, orderly>>,
           dealt' \subseteq SessionIds \X Places
    PROVE  Shape' /\ Links' /\ InPlace
<1> DEFINE s == calls[c].of
<1>1. s \in 1 .. made BY DEF Links, HandlersOfSessions
<1>2. s \in SessionIds /\ current \in SessionIds \cup {None}
    BY <1>1, ClientAssumption DEF Shape, SessionIds
<1>3. Write(s, o) OBVIOUS
<1>4. ses'[s].abortCtl = o.abortCtl
    BY <1>2, <1>3, Written DEF Shape, Alike
<1>5. DOMAIN calls' = DOMAIN calls \ {c} /\ \A x \in DOMAIN calls' : calls'[x] = calls[x]
    BY Left
<1>6. CallsQuiet BY <1>4, <1>5 DEF CallsQuiet, Shape, Audio
<1> QED BY <1>1, <1>3, <1>6, WriteLinks

LEMMA CheckedLinks ==
    ASSUME Shape, Links, NEW c \in DOMAIN calls, Checked(c), orderly' = orderly
    PROVE  Shape' /\ Links' /\ InPlace
<1> DEFINE s == calls[c].of
           o == Judged(ses[s], calls[c].for)
<1>1. calls[c].kind = "attempt" /\ c \notin Audio BY DEF Checked, Audio
<1>2. s \in SessionIds BY <1>1, ClientAssumption DEF Links, HandlersOfSessions, Shape, SessionIds
<1>3. calls[c].for \in Nat BY DEF Shape, Waiting
<1>4. o \in Object /\ o.index = ses[s].index /\ o.recorder = ses[s].recorder /\ o.abortCtl = ses[s].abortCtl
    BY <1>2, <1>3, JudgedShape DEF Shape, Has
<1>5. MicsQuiet BY DEF Checked, MicsQuiet, Mics, Shape
<1>6. Write(s, o) BY DEF Checked
<1> HIDE DEF o
<1> QED BY <1>1, <1>4, <1>5, <1>6, WriteAndLeave DEF Checked, Shape

\* The session object after a verdict, and after an upload that was given up.
LEMMA SettledJudged ==
    ASSUME NEW o \in Object, NEW i \in Nat
    PROVE  /\ Settled(Judged(o, i)) \in Object
           /\ Has(Settled(Judged(o, i)), o.index, TRUE, i, o.recording, FALSE, o.skipping,
                  o.recorder, None)
<1> DEFINE n == Judged(o, i)
<1>1. n \in Object /\ Has(n, o.index, TRUE, i, o.recording, o.transcribing, o.skipping,
                         o.recorder, o.abortCtl)
    BY JudgedShape
<1> HIDE DEF n
<1>2. Settled(n) \in Object
      /\ Has(Settled(n), n.index, n.checked, n.verdict, n.recording, FALSE, n.skipping,
             n.recorder, None)
    BY <1>1, SettledShape
<1> QED BY <1>1, <1>2 DEF Has, n

LEMMA GivenUp ==
    ASSUME NEW o \in Object
    PROVE  /\ Settled([o EXCEPT !.verdict = 0]) \in Object
           /\ Has(Settled([o EXCEPT !.verdict = 0]), o.index, o.checked, 0, o.recording,
                  FALSE, o.skipping, o.recorder, None)
<1> DEFINE n == [o EXCEPT !.verdict = 0]
<1>1. n \in Object /\ Has(n, o.index, o.checked, 0, o.recording, o.transcribing, o.skipping,
                         o.recorder, o.abortCtl)
    BY DEF Object, Has
<1> HIDE DEF n
<1>2. Settled(n) \in Object
      /\ Has(Settled(n), n.index, n.checked, n.verdict, n.recording, FALSE, n.skipping,
             n.recorder, None)
    BY <1>1, SettledShape
<1> QED BY <1>1, <1>2 DEF Has, n

LEMMA JudgedLinks ==
    ASSUME Shape, Links, NEW c \in DOMAIN calls, StopFailed(c) \/ Transcribed(c),
           orderly' = orderly
    PROVE  Shape' /\ Links' /\ InPlace
<1> DEFINE s == calls[c].of
           o == Settled(Judged(ses[s], calls[c].for))
<1>1. calls[c].kind # "start" BY DEF StopFailed, Transcribed
<1>2. s \in SessionIds BY <1>1, ClientAssumption DEF Links, HandlersOfSessions, Shape, SessionIds
<1>3. calls[c].for \in Nat BY DEF Shape, Waiting
<1>4. o \in Object /\ o.index = ses[s].index /\ o.recorder = ses[s].recorder /\ o.abortCtl = None
    BY <1>2, <1>3, SettledJudged DEF Shape, Has
<1>5. MicsQuiet BY DEF StopFailed, Transcribed, MicsQuiet, Mics, Shape
<1>6. Write(s, o) BY DEF StopFailed, Transcribed
<1>7. dealt' \subseteq SessionIds \X Places
    BY <1>2 DEF StopFailed, Transcribed, Shape, Links, HandlersOfSessions, Audio
<1> HIDE DEF o
<1> QED BY <1>1, <1>4, <1>5, <1>6, <1>7, WriteAndLeave DEF StopFailed, Transcribed, Shape

LEMMA TimedOutLinks ==
    ASSUME Shape, Links, NEW c \in DOMAIN calls, TimedOut(c), orderly' = orderly
    PROVE  Shape' /\ Links' /\ InPlace
<1> DEFINE s == calls[c].of
           o == Aborted(s)
<1>1. calls[c].kind # "start" BY DEF TimedOut
<1>2. s \in SessionIds BY <1>1, ClientAssumption DEF Links, HandlersOfSessions, Shape, SessionIds
<1>4. o \in Object /\ o.index = ses[s].index /\ o.recorder = ses[s].recorder /\ o.abortCtl = None
    BY <1>2, GivenUp DEF Shape, Has, Aborted
<1>5. MicsQuiet BY DEF TimedOut, MicsQuiet, Mics, Shape
<1>6. Write(s, o) BY DEF TimedOut
<1> HIDE DEF o
<1> QED BY <1>1, <1>4, <1>5, <1>6, WriteAndLeave DEF TimedOut, Shape
LEMMA StartRecordLinks ==
    ASSUME Shape, Links, StartRecord, orderly' = orderly
    PROVE  Shape' /\ Links' /\ InPlace
<1>1. /\ current \in 1 .. made /\ current \in SessionIds /\ current # None
      /\ S \in Object /\ S.index \in Places /\ S.index \in Nat
    BY ShownObject DEF StartRecord, Shown
<1>2. PICK m \in FreeRecorders :
          /\ mic' = [mic EXCEPT ![m] = [st |-> "prompt", of |-> current, at |-> S.index]]
          /\ ses' = [ses EXCEPT ![current].recorder = m]
    BY DEF StartRecord
<1>3. /\ m \in Recorders /\ m # None
      /\ \A g \in DOMAIN ses : ses[g].recorder # m
      /\ \A c \in DOMAIN calls : calls[c].rec # m
    BY ClientAssumption DEF FreeRecorders
<1>4. /\ ses' \in [SessionIds -> Object]
      /\ ses'[current].recorder = m /\ ses'[current].abortCtl = ses[current].abortCtl
      /\ ses'[current].index = ses[current].index
      /\ \A x \in SessionIds \ {current} : ses'[x] = ses[x]
    BY <1>1, <1>2, <1>3 DEF Shape, Object
<1>5. /\ mic' \in Mics
      /\ \A x \in Recorders \ {m} : mic'[x] = mic[x]
      /\ mic'[m].of = current /\ mic'[m].at = S.index
    BY <1>1, <1>2, <1>3 DEF Shape, Mics
<1>6. Audio' = Audio /\ UNCHANGED <<view, current, made, calls, ended, dealt>>
    BY DEF StartRecord, Audio
<1>7. Shape' BY <1>4, <1>5, <1>6 DEF Shape, Mics
<1>8. HandlersOfSessions' BY <1>1, <1>5, <1>6 DEF Links, HandlersOfSessions
<1>9. Controllers'
    <2>1. \A x \in SessionIds : ses'[x].abortCtl = ses[x].abortCtl BY <1>4
    <2> QED BY <1>6, <2>1 DEF Links, Controllers
<1>10. RecordersApart'
    <2>1. \A x \in SessionIds \ {current} : ses'[x].recorder = ses[x].recorder /\ ses'[x].recorder # m
        BY <1>3, <1>4 DEF Shape
    <2>2. \A c \in Audio : calls[c].rec # m BY <1>3 DEF Audio
    <2> QED BY <1>4, <1>6, <2>1, <2>2 DEF Links, RecordersApart
<1>11. Unmade' BY <1>1, <1>4, <1>6 DEF Links, Unmade, Alike, Shape
<1>12. InPlace BY <1>4 DEF InPlace
<1> QED BY <1>7, <1>8, <1>9, <1>10, <1>11, <1>12 DEF Links

LEMMA SameCalls ==
    ASSUME Shape, UNCHANGED calls
    PROVE  CallsQuiet
BY DEF CallsQuiet, Shape, Audio

LEMMA MicGrantedLinks ==
    ASSUME Shape, Links, NEW m \in Recorders, MicGranted(m), orderly' = orderly
    PROVE  Shape' /\ Links' /\ InPlace
<1> DEFINE s == mic[m].of
           o == [ses[s] EXCEPT !.recording = TRUE]
<1>1. s \in 1 .. made BY DEF MicGranted, Links, HandlersOfSessions
<1>2. s \in SessionIds BY <1>1, ClientAssumption DEF Shape, SessionIds
<1>3. o \in Object /\ o.index = ses[s].index /\ o.recorder = ses[s].recorder /\ o.abortCtl = ses[s].abortCtl
    BY <1>2, ZenonT(60) DEF Shape, Object
<1>4. MicsQuiet BY DEF MicGranted, MicsQuiet, Mics, Shape
<1>5. Write(s, o) BY DEF MicGranted
<1>6. CallsQuiet BY SameCalls DEF MicGranted
<1> HIDE DEF o
<1> QED BY <1>1, <1>3, <1>4, <1>5, <1>6, WriteLinks DEF MicGranted, Shape

LEMMA MicDeniedLinks ==
    ASSUME Shape, Links, NEW m \in Recorders, MicDenied(m), orderly' = orderly
    PROVE  Shape' /\ Links'
<1>1. MicsQuiet BY DEF MicDenied, MicsQuiet, Mics, Shape, Gone
<1>2. CallsQuiet BY SameCalls DEF MicDenied
<1> QED BY <1>1, <1>2, QuietLinks DEF MicDenied, Shape, Alike

LEMMA AnsweringLinks ==
    ASSUME Shape, Links, NEW c \in DOMAIN calls, Answering(c), orderly' = orderly
    PROVE  Shape' /\ Links'
<1>1. /\ DOMAIN calls' = DOMAIN calls
      /\ \A x \in DOMAIN calls : x # c => calls'[x] = calls[x]
      /\ calls'[c] \in Waiting /\ calls'[c].kind = "read"
      /\ calls'[c].of = calls[c].of /\ calls'[c].for = calls[c].for
      /\ calls'[c].ctl = calls[c].ctl
    BY DEF Answering, Shape, Waiting
<1>2. Audio' = Audio BY <1>1 DEF Audio, Answering
<1>3. Shape' BY <1>1 DEF Answering, Shape
<1> QED BY <1>1, <1>2, <1>3, LinksKept
    DEF Answering, Links, HandlersOfSessions, Controllers, Unmade, Audio

LEMMA AdvanceLinks ==
    ASSUME Shape, Links, Advance, orderly' = orderly
    PROVE  Shape' /\ Links'
<1>1. /\ current \in 1 .. made /\ current \in SessionIds /\ current # None
      /\ S \in Object
    BY ShownObject DEF Advance
<1>2. ses' = [ses EXCEPT ![current] = Advanced(S)] BY DEF Advance, S
<1>3. /\ ses' \in [SessionIds -> Object]
      /\ ses'[current].recorder = None /\ ses'[current].abortCtl = None
      /\ \A x \in SessionIds \ {current} : ses'[x] = ses[x]
    BY <1>1, <1>2, AdvancedShape DEF Shape
<1>4. CallsQuiet BY SameCalls DEF Advance
<1>5. MicsQuiet BY DEF Advance, MicsQuiet, Mics, Shape
<1>6. \A x \in SessionIds : x > made => ses'[x] = ses[x]
    BY <1>1, <1>3, ClientAssumption DEF Shape
<1> QED BY <1>3, <1>4, <1>5, <1>6, QuietLinks DEF Advance, Shape, Alike
LEMMA StopEventLinks ==
    ASSUME Shape, Links, NEW c \in DOMAIN calls, StopEvent(c), orderly' = orderly
    PROVE  Shape' /\ Links' /\ InPlace
<1> DEFINE s == calls[c].of
           i == calls[c].for
           o == [ses[s] EXCEPT !.recorder = None]
           ctl == ses[s].abortCtl
<1>1. /\ c \in Audio /\ calls[c].kind = "stop" /\ calls[c].rec # None
      /\ s \in 1 .. made /\ s \in SessionIds /\ i \in Places /\ i \in Nat
    BY ClientAssumption DEF StopEvent, Audio, Links, HandlersOfSessions, Shape, SessionIds, Places
<1>2. calls[c].rec \in Recorders BY <1>1 DEF Shape, Waiting
<1>3. MicsQuiet BY <1>2 DEF StopEvent, MicsQuiet, Mics, Shape, Gone
<1>4. ses[s] \in Object BY <1>1 DEF Shape
<1>5. /\ o \in Object
      /\ Has(o, ses[s].index, ses[s].checked, ses[s].verdict, ses[s].recording,
             ses[s].transcribing, ses[s].skipping, None, ctl)
    BY <1>4 DEF Object, Has
<1>6. ses[s].index \in Places /\ ctl \in Slots \cup {None} BY <1>4 DEF Object
<1>7. CASE ctl = None
    <2> DEFINE n == Settled(Judged(o, i))
    <2>1. Write(s, n) /\ calls' = Without({c}) /\ dealt' = dealt \cup {<<s, i>>}
        BY <1>5, <1>7 DEF StopEvent, Upload, Has
    <2> HIDE DEF o
    <2>2. n \in Object /\ n.index = ses[s].index /\ n.recorder = None /\ n.abortCtl = None
        BY <1>1, <1>5, SettledJudged DEF Has
    <2> HIDE DEF n
    <2>3. dealt' \subseteq SessionIds \X Places BY <2>1, <1>1 DEF Shape
    <2> QED BY <1>1, <1>3, <2>1, <2>2, <2>3, WriteAndLeave DEF StopEvent
<1>8. CASE ctl # None /\ calls[ctl].cut
    <2> DEFINE n == Settled([o EXCEPT !.verdict = 0])
    <2>1. Write(s, n) /\ calls' = Without({c}) /\ dealt' = dealt
        BY <1>5, <1>8 DEF StopEvent, Upload, Has
    <2> HIDE DEF o
    <2>2. n \in Object /\ n.index = ses[s].index /\ n.recorder = None /\ n.abortCtl = None
        BY <1>5, GivenUp DEF Has
    <2> HIDE DEF n
    <2> QED BY <1>1, <1>3, <2>1, <2>2, WriteAndLeave DEF StopEvent, Shape
<1>9. CASE ctl # None /\ ~ calls[ctl].cut
    <2> DEFINE call == [Call("speak", s, i) EXCEPT !.ctl = ctl]
    <2>1. /\ ses' = [ses EXCEPT ![s] = o] /\ calls' = Begin(c, call)
          /\ dealt' = dealt \cup {<<s, ses[s].index>>}
        BY <1>5, <1>9 DEF StopEvent, Upload, Has
    <2>2. /\ call \in Waiting /\ call.kind = "speak" /\ call.of = s /\ call.for = i
          /\ call.ctl = ctl
        BY <1>1, <1>6 DEF Call, Waiting
    <2> HIDE DEF call
    <2>3. /\ DOMAIN calls' = DOMAIN calls /\ calls'[c] = call
          /\ \A x \in DOMAIN calls : x # c => calls'[x] = calls[x]
        BY <2>1, Begun
    <2>4. /\ ses' \in [SessionIds -> Object]
          /\ \A x \in SessionIds \ {s} : ses'[x] = ses[x]
          /\ ses'[s].recorder = None /\ ses'[s].abortCtl = ctl
          /\ ses'[s].index = ses[s].index
        BY <1>1, <1>5, <2>1 DEF Shape, Has
    <2>5. Audio' = Audio BY <1>1, <2>2, <2>3 DEF Audio
    <2>6. Shape' BY <1>1, <1>3, <1>6, <2>1, <2>2, <2>3, <2>4
        DEF StopEvent, Shape, MicsQuiet, Mics
    <2>11. Audio \subseteq DOMAIN calls BY DEF Audio
    <2>12. made' = made BY DEF StopEvent
    <2>7. HandlersOfSessions'
        <3>1. \A x \in DOMAIN calls' : calls'[x].kind # "start" => calls'[x].of \in 1 .. made'
            BY <1>1, <2>2, <2>3, <2>12 DEF Links, HandlersOfSessions
        <3>2. \A x \in Audio' : /\ calls'[x].ctl # None /\ calls'[x].for \in Places
                                /\ calls'[x].kind = "stop" => calls'[x].rec # None
            BY <1>1, <1>9, <2>2, <2>3, <2>5, <2>11 DEF Links, HandlersOfSessions
        <3>3. \A m \in Recorders : mic'[m].st # "gone" => /\ mic'[m].of \in 1 .. made'
                                                          /\ mic'[m].at \in Places
            BY <1>3, <2>12 DEF Links, HandlersOfSessions, MicsQuiet
        <3> QED BY <3>1, <3>2, <3>3 DEF HandlersOfSessions
    <2>8. Controllers'
        <3>1. \A x \in SessionIds : ses'[x].abortCtl = ses[x].abortCtl BY <2>4
        <3>2. \A x \in SessionIds : x # s => ses[x].abortCtl # ctl
            BY <1>1, <1>9 DEF Links, Controllers
        <3> QED BY <1>1, <2>2, <2>3, <2>5, <2>11, <3>1, <3>2 DEF Links, Controllers
    <2>9. RecordersApart'
        <3>1. \A x \in SessionIds : ses'[x].recorder \in {None, ses[x].recorder} BY <2>4
        <3>2. \A x \in Audio : calls'[x].kind = "stop" => calls'[x] = calls[x]
            BY <2>2, <2>3, <2>11
        <3> QED BY <2>5, <3>1, <3>2 DEF Links, RecordersApart
    <2>10. Unmade' BY <1>1, <2>4, ClientAssumption DEF StopEvent, Links, Unmade, Alike, Shape
    <2>13. InPlace BY <2>4 DEF InPlace
    <2> QED BY <2>6, <2>7, <2>8, <2>9, <2>10, <2>13 DEF Links
<1> QED BY <1>7, <1>8, <1>9

\* stopRecord finds a recording: its handler gets a controller of its own.
LEMMA StoppingLinks ==
    ASSUME Shape, Links, current # None, NEW m, m = S.recorder, m # None,
           NEW c \in FreeSlots, NEW ms, mic[m].st # "gone",
           calls' = Begin(c, [Call("stop", current, mic[m].at) EXCEPT !.rec = m, !.ctl = c]),
           mic' = Silent(ms),
           \A x \in ms \cap Recorders : mic[x].st # "gone",
           Write(current, [[S EXCEPT !.recording = FALSE]
                              EXCEPT !.transcribing = TRUE, !.abortCtl = c]),
           UNCHANGED <<view, current, made, ended, dealt, orderly>>
    PROVE  Shape' /\ Links' /\ InPlace
<1> DEFINE call == [Call("stop", current, mic[m].at) EXCEPT !.rec = m, !.ctl = c]
           o == [[S EXCEPT !.recording = FALSE] EXCEPT !.transcribing = TRUE, !.abortCtl = c]
<1>1. /\ current \in 1 .. made /\ current \in SessionIds /\ S \in Object /\ S = ses[current]
    BY ClientAssumption DEF Shape, SessionIds, S
<1>2. m \in Recorders BY <1>1 DEF Object
<1>3. /\ c \in Slots /\ c \notin DOMAIN calls /\ c # None
      /\ \A x \in DOMAIN calls : calls[x].ctl # c
    BY ClientAssumption DEF FreeSlots
<1>4. mic[m].at \in Places /\ mic[m].at \in Nat
    BY <1>2 DEF Links, HandlersOfSessions, Places
<1>5. /\ call \in Waiting /\ call.kind = "stop" /\ call.of = current
      /\ call.for = mic[m].at /\ call.rec = m /\ call.ctl = c
    BY <1>1, <1>2, <1>3, <1>4 DEF Call, Waiting
<1>6. /\ o \in Object
      /\ Has(o, S.index, S.checked, S.verdict, FALSE, TRUE, S.skipping, m, c)
    BY <1>1, <1>3 DEF Object, Has
<1>7. Write(current, o) /\ calls' = Begin(c, call) OBVIOUS
<1> HIDE DEF call, o
<1>8. /\ DOMAIN calls' = DOMAIN calls \cup {c} /\ calls'[c] = call
      /\ \A x \in DOMAIN calls : calls'[x] = calls[x]
    BY <1>3, <1>7, Begun
<1>9. /\ ses' \in [SessionIds -> Object]
      /\ Alike(ses'[current], o)
      /\ \A x \in SessionIds \ {current} : Alike(ses'[x], ses[x])
    BY <1>1, <1>6, <1>7, Written DEF Shape
<1>10. MicsQuiet BY DEF MicsQuiet, Mics, Silent, Shape
<1>11. Audio' = Audio \cup {c} BY <1>3, <1>5, <1>8 DEF Audio
<1>12. Shape' BY <1>3, <1>5, <1>8, <1>9, <1>10 DEF Shape, MicsQuiet, Mics
<1>13. HandlersOfSessions'
    <2>1. \A x \in DOMAIN calls' : calls'[x].kind # "start" => calls'[x].of \in 1 .. made'
        BY <1>1, <1>5, <1>8 DEF Links, HandlersOfSessions
    <2>2. \A x \in Audio' : /\ calls'[x].ctl # None /\ calls'[x].for \in Places
                            /\ calls'[x].kind = "stop" => calls'[x].rec # None
        <3>1. Audio \subseteq DOMAIN calls BY DEF Audio
        <3> QED BY <1>3, <1>4, <1>5, <1>8, <1>11, <3>1 DEF Links, HandlersOfSessions
    <2>3. \A x \in Recorders : mic'[x].st # "gone" => /\ mic'[x].of \in 1 .. made'
                                                      /\ mic'[x].at \in Places
        BY <1>10 DEF Links, HandlersOfSessions, MicsQuiet
    <2> QED BY <2>1, <2>2, <2>3 DEF HandlersOfSessions
<1>14. Controllers'
    <2>1. ses'[current].abortCtl = c /\ \A x \in SessionIds \ {current} :
             ses'[x].abortCtl = ses[x].abortCtl
        BY <1>6, <1>9 DEF Alike, Has
    <2>2. \A x \in Audio : calls[x].ctl # c /\ x # c BY <1>3 DEF Audio
    <2>3. \A x \in Audio : calls'[x] = calls[x] BY <1>8 DEF Audio
    <2>4. ASSUME NEW x \in SessionIds, x # current, ses'[x].abortCtl # None
          PROVE  /\ ses'[x].abortCtl \in Audio' /\ calls'[ses'[x].abortCtl].of = x
                 /\ \A y \in Audio' : calls'[y].ctl = ses'[x].abortCtl => calls'[y].of = x
        BY <2>1, <2>2, <2>3, <2>4, <1>5, <1>8, <1>11 DEF Links, Controllers
    <2>5. /\ c \in Audio' /\ calls'[c].of = current
          /\ \A y \in Audio' : calls'[y].ctl = c => calls'[y].of = current
        BY <2>2, <2>3, <1>5, <1>8, <1>11
    <2> QED BY <2>1, <2>4, <2>5 DEF Controllers
<1>15. RecordersApart'
    <2>1. \A x \in SessionIds : ses'[x].recorder = ses[x].recorder
        BY <1>1, <1>6, <1>9 DEF Alike, Has
    <2>2. \A x \in Audio : calls'[x] = calls[x] BY <1>8 DEF Audio
    <2>3. ASSUME NEW x \in SessionIds, ses'[x].recorder # None
          PROVE  /\ \A y \in SessionIds : ses'[y].recorder = ses'[x].recorder => y = x
                 /\ \A y \in Audio : calls'[y].kind = "stop" /\ calls'[y].rec = ses'[x].recorder
                                     => calls'[y].of = x
        BY <2>1, <2>2, <2>3 DEF Links, RecordersApart
    <2>4. ASSUME NEW x \in SessionIds, calls'[c].rec = ses'[x].recorder, ses'[x].recorder # None,
                 calls'[c].kind = "stop"
          PROVE  calls'[c].of = x
        BY <1>1, <1>5, <1>8, <2>1, <2>4 DEF Links, RecordersApart
    <2> QED BY <1>11, <2>3, <2>4 DEF RecordersApart
<1>16. Unmade' BY <1>1, <1>9, ClientAssumption DEF Links, Unmade, Alike, Shape
<1>17. InPlace BY <1>1, <1>6, <1>9 DEF InPlace, Alike, Has
<1> QED BY <1>12, <1>13, <1>14, <1>15, <1>16, <1>17 DEF Links
LEMMA SilentQuiet ==
    ASSUME Shape, NEW ms, mic' = Silent(ms), \A x \in ms \cap Recorders : mic[x].st # "gone"
    PROVE  MicsQuiet
BY DEF MicsQuiet, Mics, Silent, Shape

LEMMA StopRecordingLinks ==
    ASSUME Shape, Links, current # None, NEW ms, StopRecording(ms),
           \A x \in ms \cap Recorders : mic[x].st # "gone",
           UNCHANGED <<view, current, made, ended, orderly>>
    PROVE  Shape' /\ Links' /\ InPlace
<1> DEFINE m == S.recorder
           o == [S EXCEPT !.recording = FALSE]
<1>1. /\ current \in 1 .. made /\ current \in SessionIds /\ S \in Object /\ S = ses[current]
      /\ S.index \in Places /\ S.index \in Nat
    BY ClientAssumption DEF Shape, SessionIds, S, Object, Places
<1>2. m # None /\ m \in Recorders BY <1>1 DEF StopRecording, Object
<1>3. CASE mic[m].st \in {"on", "inactive"}
    <2>1. PICK c \in FreeSlots :
             /\ calls' = Begin(c, [Call("stop", current, mic[m].at) EXCEPT !.rec = m, !.ctl = c])
             /\ mic' = Silent(ms \cup {m})
             /\ Write(current, [o EXCEPT !.transcribing = TRUE, !.abortCtl = c])
             /\ UNCHANGED dealt
        BY <1>3 DEF StopRecording
    <2>2. mic[m].st # "gone" /\ \A x \in (ms \cup {m}) \cap Recorders : mic[x].st # "gone"
        BY <1>3
    <2> QED BY <1>2, <2>1, <2>2, StoppingLinks
<1>4. CASE mic[m].st \notin {"on", "inactive"}
    <2> DEFINE n == Settled(Judged(o, S.index))
    <2>1. Write(current, n) /\ mic' = Silent(ms) /\ calls' = calls
          /\ dealt' = dealt \cup {<<current, S.index>>}
        BY <1>4 DEF StopRecording
    <2>2. o \in Object /\ o.index = S.index /\ o.recorder = S.recorder BY <1>1 DEF Object
    <2> HIDE DEF o
    <2>3. n \in Object /\ n.index = S.index /\ n.recorder = S.recorder /\ n.abortCtl = None
        BY <1>1, <2>2, SettledJudged DEF Has
    <2> HIDE DEF n
    <2>4. MicsQuiet /\ CallsQuiet BY <2>1, SilentQuiet, SameCalls
    <2>5. dealt' \subseteq SessionIds \X Places BY <1>1, <2>1 DEF Shape
    <2> QED BY <1>1, <2>1, <2>3, <2>4, <2>5, WriteLinks
<1> QED BY <1>3, <1>4

LEMMA StopRecordLinks ==
    ASSUME Shape, Links, StopRecord, orderly' = orderly
    PROVE  Shape' /\ Links' /\ InPlace
<1>1. current # None BY ShownObject DEF StopRecord, Shown
<1> QED BY <1>1, StopRecordingLinks DEF StopRecord

LEMMA AutoStopLinks ==
    ASSUME Shape, Links, NEW m \in Recorders, AutoStop(m), orderly' = orderly
    PROVE  Shape' /\ Links' /\ InPlace
<1>1. mic[m].st = "on" /\ mic[m].of # None
    BY ClientAssumption DEF AutoStop, Links, HandlersOfSessions, Shape
<1>2. CASE Stops(m)
    <2>1. current # None BY <1>1, <1>2 DEF Stops
    <2> QED BY <1>1, <1>2, <2>1, StopRecordingLinks DEF AutoStop
<1>3. CASE ~ Stops(m)
    <2>1. mic' = Silent({m}) /\ UNCHANGED <<ses, calls, dealt>> BY <1>3 DEF AutoStop
    <2>2. MicsQuiet /\ CallsQuiet BY <1>1, <2>1, SilentQuiet, SameCalls
    <2> QED BY <2>1, <2>2, QuietLinks DEF AutoStop, Shape, Alike, InPlace
<1> QED BY <1>2, <1>3

LEMMA CancelTranscribeLinks ==
    ASSUME Shape, Links, CancelTranscribe, orderly' = orderly
    PROVE  Shape' /\ Links' /\ InPlace
<1>1. /\ current \in 1 .. made /\ current \in SessionIds /\ S \in Object /\ S = ses[current]
      /\ S.abortCtl # None
    BY ShownObject DEF CancelTranscribe, Shown, S
<1>2. /\ S.abortCtl \in Audio /\ Uploads \subseteq Audio
      /\ \A x \in Uploads : calls[x].of = current
    BY <1>1 DEF Links, Controllers, Uploads, Audio
<1>3. CASE Uploads # {}
    <2> DEFINE o == Aborted(current)
    <2>1. Write(current, o) /\ calls' = Without(Uploads)
        BY <1>3 DEF CancelTranscribe
    <2>2. o \in Object /\ o.index = S.index /\ o.recorder = S.recorder /\ o.abortCtl = None
        BY <1>1, GivenUp DEF Has, Aborted
    <2> HIDE DEF o
    <2>3. ses'[current].abortCtl = None BY <1>1, <2>1, <2>2, Written DEF Shape, Alike
    <2>6. DOMAIN calls' = DOMAIN calls \ Uploads /\ \A x \in DOMAIN calls' : calls'[x] = calls[x]
        BY <2>1, Left
    <2>4. CallsQuiet BY <1>2, <2>3, <2>6 DEF CallsQuiet, Shape, Audio
    <2>5. MicsQuiet BY DEF CancelTranscribe, MicsQuiet, Mics, Shape
    <2> QED BY <1>1, <2>1, <2>2, <2>4, <2>5, WriteLinks DEF CancelTranscribe, Shape
<1>4. CASE Uploads = {}
    <2> DEFINE k == S.abortCtl
    <2>1. calls' = [calls EXCEPT ![k].cut = TRUE] /\ UNCHANGED ses
        BY <1>4 DEF CancelTranscribe
    <2>2. k \in DOMAIN calls /\ calls[k] \in Waiting BY <1>2 DEF Audio, Shape
    <2>3. /\ DOMAIN calls' = DOMAIN calls
          /\ \A x \in DOMAIN calls : x # k => calls'[x] = calls[x]
          /\ calls'[k] = [calls[k] EXCEPT !.cut = TRUE]
        BY <2>1, <2>2
    <2>4. /\ calls'[k] \in Waiting /\ calls'[k].kind = calls[k].kind
          /\ calls'[k].of = calls[k].of /\ calls'[k].for = calls[k].for
          /\ calls'[k].rec = calls[k].rec /\ calls'[k].ctl = calls[k].ctl
        BY <2>2, <2>3 DEF Waiting
    <2>5. \A x \in DOMAIN calls :
             /\ calls'[x] \in Waiting /\ calls'[x].kind = calls[x].kind
             /\ calls'[x].of = calls[x].of /\ calls'[x].for = calls[x].for
             /\ calls'[x].rec = calls[x].rec /\ calls'[x].ctl = calls[x].ctl
        BY <2>3, <2>4 DEF Shape
    <2>6. Audio' = Audio BY <2>3, <2>5 DEF Audio
    <2>7. Shape' BY <2>1, <2>3, <2>5 DEF CancelTranscribe, Shape
    <2>8. Audio \subseteq DOMAIN calls BY DEF Audio
    <2>9. \A x \in Audio' : /\ x \in Audio
                            /\ calls'[x].of = calls[x].of /\ calls'[x].for = calls[x].for
                           /\ calls'[x].ctl = calls[x].ctl
                           /\ calls'[x].kind = "stop" => calls[x].kind = "stop"
                                                       /\ calls'[x].rec = calls[x].rec
        BY <2>5, <2>6, <2>8
    <2> QED BY <2>1, <2>3, <2>5, <2>6, <2>7, <2>9, LinksKept
        DEF CancelTranscribe, Links, HandlersOfSessions, Controllers, Unmade, InPlace
<1> QED BY <1>3, <1>4
LEMMA SkipLinks ==
    ASSUME Shape, Links, Skip, orderly' = orderly
    PROVE  Shape' /\ Links' /\ InPlace
<1> DEFINE o == [S EXCEPT !.skipping = TRUE, !.recorder = None, !.abortCtl = None,
                          !.recording = FALSE, !.transcribing = FALSE]
           call == Call("skip", current, S.index)
<1>1. /\ current \in 1 .. made /\ current \in SessionIds /\ S \in Object /\ S = ses[current]
      /\ S.index \in Places /\ S.index \in Nat /\ current # None
    BY ShownObject DEF Skip, Shown, S
<1>2. PICK c \in FreeSlots :
         calls' = [x \in DOMAIN Without(Torn) \cup {c} |-> IF x = c THEN call ELSE calls[x]]
    BY DEF Skip
<1>3. c \in Slots /\ c \notin DOMAIN calls BY ClientAssumption DEF FreeSlots
<1>4. call \in Waiting /\ call.kind = "skip" /\ call.of = current
    BY <1>1, CallShape
<1> HIDE DEF call
<1>5. /\ DOMAIN calls' = (DOMAIN calls \ Torn) \cup {c} /\ calls'[c] = call
      /\ \A x \in DOMAIN calls \ Torn : calls'[x] = calls[x]
    BY <1>2, <1>3 DEF Without
<1>6. \A x \in Torn : x \in Audio /\ calls[x].of = current
    <2>1. ASSUME NEW x \in Uploads PROVE x \in Audio /\ calls[x].of = current
        <3>1. x \in Audio /\ calls[x].ctl = S.abortCtl BY DEF Uploads, Audio
        <3>2. S.abortCtl # None BY <3>1 DEF Links, HandlersOfSessions
        <3> QED BY <1>1, <3>1, <3>2 DEF Links, Controllers
    <2>2. ASSUME NEW x \in DOMAIN calls, calls[x].kind = "stop", calls[x].rec = S.recorder
          PROVE  x \in Audio /\ calls[x].of = current
        <3>1. x \in Audio BY <2>2 DEF Audio
        <3>2. S.recorder # None BY <2>2, <3>1 DEF Links, HandlersOfSessions
        <3> QED BY <1>1, <2>2, <3>1, <3>2 DEF Links, RecordersApart
    <2> QED BY <2>1, <2>2 DEF Torn
<1>7. o \in Object /\ o.index = S.index /\ o.recorder = None /\ o.abortCtl = None BY <1>1 DEF Object
<1>8. Write(current, o) BY DEF Skip
<1> HIDE DEF o
<1>9. ses'[current].abortCtl = None BY <1>1, <1>7, <1>8, Written DEF Shape, Alike
<1>10. CallsQuiet
    <2>1. Audio \subseteq DOMAIN calls BY DEF Audio
    <2> QED BY <1>1, <1>3, <1>4, <1>5, <1>6, <1>9, <2>1 DEF CallsQuiet, Shape
<1>11. MicsQuiet BY DEF Skip, MicsQuiet, Mics, Shape, Gone
<1>12. dealt' \subseteq SessionIds \X Places BY <1>1 DEF Skip, Shape
<1> QED BY <1>1, <1>7, <1>8, <1>10, <1>11, <1>12, WriteLinks DEF Skip

LEMMA SkippedLinks ==
    ASSUME Shape, Links, NEW c \in DOMAIN calls, Skipped(c), orderly' = orderly
    PROVE  Shape' /\ Links'
<1> DEFINE s == calls[c].of
           o == [ses[s] EXCEPT !.skipping = FALSE]
           after == [ses EXCEPT ![s].skipping = FALSE]
<1>1. /\ calls[c].kind = "skip" /\ c \notin Audio
      /\ s \in 1 .. made /\ s \in SessionIds /\ current \in SessionIds \cup {None}
    BY ClientAssumption DEF Skipped, Audio, Links, HandlersOfSessions, Shape, SessionIds
<1>2. o \in Object /\ o.recorder = ses[s].recorder /\ o.abortCtl = ses[s].abortCtl
    <2>1. ses[s] \in Object BY <1>1 DEF Shape
    <2> QED BY <2>1 DEF Object
<1>3. /\ after \in [SessionIds -> Object]
      /\ after[s] = o /\ \A x \in SessionIds \ {s} : after[x] = ses[x]
    BY <1>1, <1>2 DEF Shape
<1> DEFINE adv == Advanced(after[current])
<1>4. \/ ses' = after
      \/ current # None /\ ses' = [after EXCEPT ![current] = adv]
    BY DEF Skipped
<1>5. \/ calls' = Without({c})
      \/ current # None /\ calls' = [calls EXCEPT ![c] = Call("end", current, 0)]
    BY DEF Skipped
<1> HIDE DEF after, o
<1>6. current # None => adv \in Object /\ adv.recorder = None /\ adv.abortCtl = None
    BY <1>1, <1>3, AdvancedShape
<1> HIDE DEF adv
<1>7. ses' \in [SessionIds -> Object] BY <1>1, <1>3, <1>4, <1>6
<1>8. \A x \in SessionIds : ses'[x] = after[x] \/ (x = current /\ x # None /\ ses'[x] = adv)
    BY <1>1, <1>3, <1>4
<1>9. \A x \in SessionIds : /\ ses'[x].recorder \in {None, ses[x].recorder}
                            /\ ses'[x].abortCtl \in {None, ses[x].abortCtl}
    BY <1>2, <1>3, <1>6, <1>8
<1>10. ASSUME NEW x \in SessionIds, x > made PROVE Alike(ses'[x], ses[x])
    <2>1. x # s /\ x # current BY <1>1, <1>10, ClientAssumption DEF Shape, SessionIds
    <2> QED BY <1>3, <1>8, <2>1 DEF Alike
<1>11. CallsQuiet
    <2>1. CASE calls' = Without({c})
        <3>1. DOMAIN calls' = DOMAIN calls \ {c} /\ \A x \in DOMAIN calls' : calls'[x] = calls[x]
            BY <2>1, Left
        <3> QED BY <1>1, <3>1 DEF CallsQuiet, Shape, Audio
    <2>2. CASE current # None /\ calls' = [calls EXCEPT ![c] = Call("end", current, 0)]
        <3>1. /\ DOMAIN calls' = DOMAIN calls /\ calls'[c] = Call("end", current, 0)
              /\ \A x \in DOMAIN calls : x # c => calls'[x] = calls[x]
            BY <2>2
        <3>2. calls'[c] \in Waiting /\ calls'[c].kind = "end" /\ calls'[c].of = current
            BY <1>1, <3>1, CallShape
        <3>3. current \in 1 .. made BY <2>2 DEF Shape
        <3> QED BY <1>1, <3>1, <3>2, <3>3 DEF CallsQuiet, Shape, Audio
    <2> QED BY <1>5, <2>1, <2>2
<1>12. MicsQuiet BY DEF Skipped, MicsQuiet, Mics, Shape
<1> QED BY <1>7, <1>9, <1>10, <1>11, <1>12, QuietLinks DEF Skipped, Shape

LEMMA InitLinks ==
    ASSUME Init
    PROVE  Shape /\ Links
<1>1. DOMAIN calls = {} BY DEF Init
<1>2. Shape BY <1>1, NewShape, ClientAssumption DEF Init, Shape, Gone, SessionIds
<1>3. Audio = {} BY <1>1 DEF Audio
<1>4. \A s \in SessionIds : ses[s] = New BY DEF Init, SessionIds
<1>5. \A s \in SessionIds : ses[s].abortCtl = None /\ ses[s].recorder = None BY <1>4 DEF New
<1>6. \A m \in Recorders : mic[m].st = "gone" BY DEF Init, Gone
<1> QED BY <1>1, <1>2, <1>3, <1>4, <1>5, <1>6
    DEF Links, HandlersOfSessions, Controllers, RecordersApart, Unmade, Alike

LEMMA NextLinks ==
    ASSUME Shape, Links, [Next]_vars
    PROVE  Shape' /\ Links'
<1>1. CASE Learner
    BY <1>1, StartSessionLinks, AgainLinks, CheckLinks, StartRecordLinks, StopRecordLinks,
       CancelTranscribeLinks, SkipLinks, AdvanceLinks, FinishLinks DEF Learner
<1>2. ASSUME NEW c \in DOMAIN calls, Resume(c) PROVE Shape' /\ Links'
    BY <1>2, StartedLinks, NotStartedLinks, CheckedLinks, CheckFailedLinks, StopEventLinks,
       JudgedLinks, AnsweringLinks, TimedOutLinks, SkippedLinks, FinishedLinks DEF Resume
<1>3. ASSUME NEW m \in Recorders, Prompt(m) \/ Timer(m) PROVE Shape' /\ Links'
    BY <1>3, MicGrantedLinks, MicDeniedLinks, AutoStopLinks DEF Prompt, Timer
<1>4. CASE UNCHANGED vars
    <2>1. Audio' = Audio BY <1>4 DEF vars, Audio
    <2> QED BY <1>4, <2>1 DEF vars, Shape, Links, HandlersOfSessions, Controllers, RecordersApart,
                          Unmade
<1> QED BY <1>1, <1>2, <1>3, <1>4 DEF Next
-----------------------------------------------------------------------------
(* The page of an orderly learner *)

Kind == Kinds[S.index]

\* The calls to the server are the current session's, one at a time but for the ends
\* that repeated skips at the last task may send.
Calls ==
    /\ view = "session" <=> current # None
    /\ \A c \in OnWire :
          /\ calls[c].kind = "start" => current = None /\ view = "home" /\ OnWire = {c}
          /\ calls[c].kind = "attempt" => current # None
          /\ calls[c].kind # "start" /\ current # None => calls[c].of = current
          /\ current # None /\ calls[c].kind = "attempt" =>
                /\ OnWire = {c} /\ calls[c].for = S.index /\ Kind = "text"
                /\ <<current, S.index>> \in dealt
          /\ current # None /\ calls[c].kind = "skip" =>
                /\ Kind = "speak" /\ S.skipping /\ S.recorder = None /\ ~ S.transcribing
                /\ \A d \in OnWire : calls[d].kind = "skip" => d = c
                /\ <<current, S.index>> \in dealt
          /\ current # None /\ calls[c].kind = "end" => S.index = Total /\ Audio = {}

\* At most one handler has a recording, of the task shown.
Recordings ==
    \A c \in Audio :
        /\ current # None /\ Audio = {c}
        /\ calls[c].of = current /\ calls[c].for = S.index /\ Kind = "speak"
        /\ calls[c].kind \in {"stop", "speak"} => S.transcribing /\ calls[c].ctl = S.abortCtl
        /\ calls[c].kind = "stop" => calls[c].rec = S.recorder
        /\ calls[c].kind \in {"speak", "read"} => <<current, S.index>> \in dealt
        /\ calls[c].kind = "read" => S.transcribing \/ \E d \in OnWire : calls[d].kind = "skip"

\* The flags of the session shown, the recorder it uses and what is under way agree.
Flags ==
    current # None =>
        /\ S.transcribing => Kind = "speak" /\ OnWire = {} /\ ~ S.checked
        /\ S.checked => <<current, S.index>> \in dealt /\ S.verdict \in {0, S.index}
        /\ S.recorder # None => Kind = "speak" /\ Prompts \subseteq {S.recorder}
        /\ S.recorder # None /\ (S.recording \/ S.recorder \in Prompts) =>
              /\ mic[S.recorder].of = current /\ mic[S.recorder].at = S.index
              /\ mic[S.recorder].st # "gone"
              /\ S.recording => S.recorder \notin Prompts
              /\ ~ S.checked /\ ~ S.transcribing /\ Audio = {} /\ OnWire = {}

WithinTasks == \A s \in SessionIds : ses[s].index <= Total
OthersEnded == \A s \in 1 .. made : s # current => s \in ended

Tidy == Calls /\ Recordings /\ Flags /\ WithinTasks /\ OthersEnded

LEMMA TwoSorts ==
    ASSUME Shape
    PROVE  /\ DOMAIN calls = OnWire \cup Audio
           /\ \A c \in OnWire : c \notin Audio
BY DEF Shape, OnWire, Audio, Waiting

LEMMA LeftSorts ==
    ASSUME NEW cs, calls' = Without(cs)
    PROVE  /\ OnWire' = OnWire \ cs /\ Audio' = Audio \ cs
           /\ \A x \in OnWire' \cup Audio' : calls'[x] = calls[x]
<1>1. DOMAIN calls' = DOMAIN calls \ cs /\ \A x \in DOMAIN calls' : calls'[x] = calls[x]
    BY Left
<1> QED BY <1>1 DEF OnWire, Audio

LEMMA SentSorts ==
    ASSUME Shape, NEW c \in FreeSlots, NEW k \in {"start", "attempt", "skip", "end"},
           NEW s \in SessionIds \cup {None}, NEW i \in Nat,
           calls' = Begin(c, Call(k, s, i))
    PROVE  /\ OnWire' = OnWire \cup {c} /\ Audio' = Audio /\ c \notin OnWire
           /\ calls'[c].kind = k /\ calls'[c].of = s /\ calls'[c].for = i
           /\ \A x \in OnWire \cup Audio : calls'[x] = calls[x]
<1> DEFINE call == Call(k, s, i)
<1>1. call.kind = k /\ call.of = s /\ call.for = i BY CallShape
<1>2. calls' = Begin(c, call) OBVIOUS
<1> HIDE DEF call
<1>3. /\ DOMAIN calls' = DOMAIN calls \cup {c} /\ calls'[c] = call
      /\ \A x \in DOMAIN calls' : x # c => calls'[x] = calls[x]
    BY <1>2, Begun
<1>4. c \notin DOMAIN calls BY ClientAssumption DEF FreeSlots
<1> QED BY <1>1, <1>3, <1>4 DEF OnWire, Audio

LEMMA StartSessionTidy ==
    ASSUME Shape, Tidy, orderly, StartSession
    PROVE  Tidy'
<1>1. PICK c \in FreeSlots : calls' = Begin(c, Call("start", None, 0))
    BY DEF StartSession
<1>2. /\ view = "home" /\ OnWire = {} /\ current = None
      /\ UNCHANGED <<view, current, ses, made, mic, ended, dealt>>
    BY DEF StartSession, Willing, Tidy, Calls
<1>3. Audio = {} BY <1>2 DEF Tidy, Recordings
<1>4. OnWire' = {c} /\ Audio' = {} /\ calls'[c].kind = "start"
    BY <1>1, <1>2, <1>3, SentSorts
<1>5. Calls' /\ Recordings' /\ Flags' BY <1>2, <1>4 DEF Calls, Recordings, Flags
<1>6. WithinTasks' /\ OthersEnded' BY <1>2 DEF Tidy, WithinTasks, OthersEnded
<1> QED BY <1>5, <1>6 DEF Tidy

LEMMA StartedTidy ==
    ASSUME Shape, Links, Tidy, NEW c \in DOMAIN calls, Started(c)
    PROVE  Tidy'
<1>1. /\ made' = made + 1 /\ current' = made + 1 /\ view' = "session"
      /\ calls' = Without({c}) /\ calls[c].kind = "start"
      /\ UNCHANGED <<ses, mic, ended, dealt>>
    BY DEF Started
<1>2. c \in OnWire BY <1>1 DEF OnWire
<1>3. OnWire = {c} /\ current = None BY <1>1, <1>2 DEF Tidy, Calls
<1>4. Audio = {} BY <1>3 DEF Tidy, Recordings
<1>5. OnWire' = {} /\ Audio' = {} BY <1>1, <1>3, <1>4, LeftSorts
<1>6. made + 1 \in SessionIds /\ made + 1 > made /\ made + 1 # None
    BY ClientAssumption DEF Started, Shape, SessionIds
<1>7. Alike(ses[made + 1], New) BY <1>6 DEF Links, Unmade
<1>8. /\ ~ S'.transcribing /\ ~ S'.checked /\ S'.recorder = None
    BY <1>1, <1>7 DEF S, Alike, New
<1>9. Calls' /\ Recordings' /\ Flags' BY <1>1, <1>5, <1>6, <1>8 DEF Calls, Recordings, Flags
<1>10. WithinTasks' BY <1>1 DEF Tidy, WithinTasks
<1>11. OthersEnded'
    BY <1>1, <1>3, ClientAssumption DEF Tidy, OthersEnded, Shape
<1> QED BY <1>9, <1>10, <1>11 DEF Tidy

LEMMA NotStartedTidy ==
    ASSUME Shape, Tidy, NEW c \in DOMAIN calls, NotStarted(c)
    PROVE  Tidy'
<1>1. /\ calls' = Without({c}) /\ calls[c].kind = "start" /\ view' \in {view, "results"}
      /\ UNCHANGED <<current, ses, made, mic, ended, dealt>>
    BY DEF NotStarted
<1>2. c \in OnWire BY <1>1 DEF OnWire
<1>3. OnWire = {c} /\ current = None /\ view = "home" BY <1>1, <1>2 DEF Tidy, Calls
<1>4. Audio = {} BY <1>3 DEF Tidy, Recordings
<1>5. OnWire' = {} /\ Audio' = {} BY <1>1, <1>3, <1>4, LeftSorts
<1>6. Calls' /\ Recordings' /\ Flags' BY <1>1, <1>3, <1>5 DEF Calls, Recordings, Flags
<1>7. WithinTasks' /\ OthersEnded' BY <1>1 DEF Tidy, WithinTasks, OthersEnded
<1> QED BY <1>6, <1>7 DEF Tidy

LEMMA AgainTidy ==
    ASSUME Shape, Tidy, Again
    PROVE  Tidy'
<1>1. /\ view = "results" /\ view' = "home"
      /\ UNCHANGED <<current, ses, made, mic, calls, ended, dealt>>
    BY DEF Again
<1>2. current = None /\ OnWire' = OnWire /\ Audio' = Audio
    BY <1>1 DEF Tidy, Calls, OnWire, Audio
<1>3. Calls' BY <1>1, <1>2 DEF Tidy, Calls
<1>4. Recordings' /\ Flags' BY <1>1, <1>2 DEF Tidy, Recordings, Flags
<1>5. WithinTasks' /\ OthersEnded' BY <1>1 DEF Tidy, WithinTasks, OthersEnded
<1> QED BY <1>3, <1>4, <1>5 DEF Tidy

LEMMA CheckTidy ==
    ASSUME Shape, Tidy, orderly, Check
    PROVE  Tidy'
<1>1. PICK c \in FreeSlots : calls' = Begin(c, Call("attempt", current, S.index))
    BY DEF Check
<1>2. /\ view = "session" /\ Kind = "text" /\ ~ S.checked /\ OnWire = {}
      /\ UNCHANGED <<view, current, ses, made, mic, ended>>
      /\ dealt' = dealt \cup {<<current, S.index>>}
    BY DEF Check, Shown, Willing, Kind
<1>3. current \in SessionIds /\ current # None /\ S.index \in Nat BY <1>2, ShownObject
<1>4. Audio = {} BY <1>2 DEF Tidy, Recordings
<1>5. /\ OnWire' = {c} /\ Audio' = {} /\ calls'[c].kind = "attempt"
      /\ calls'[c].of = current /\ calls'[c].for = S.index
    BY <1>1, <1>2, <1>3, <1>4, SentSorts
<1>6. S' = S /\ Kind' = Kind /\ Prompts' = Prompts BY <1>2 DEF S, Kind, Prompts
<1>7. S.recorder = None /\ ~ S.transcribing BY <1>2, <1>3 DEF Tidy, Flags
<1>8. Calls' BY <1>2, <1>3, <1>5, <1>6 DEF Calls
<1>9. Recordings' BY <1>5 DEF Recordings
<1>10. Flags' BY <1>2, <1>6, <1>7 DEF Flags
<1>11. WithinTasks' /\ OthersEnded' BY <1>2 DEF Tidy, WithinTasks, OthersEnded
<1> QED BY <1>8, <1>9, <1>10, <1>11 DEF Tidy
LEMMA CheckFailedTidy ==
    ASSUME Shape, Tidy, NEW c \in DOMAIN calls, CheckFailed(c)
    PROVE  Tidy'
<1>1. /\ calls' = Without({c}) /\ calls[c].kind = "attempt"
      /\ UNCHANGED <<view, current, ses, made, mic, ended, dealt>>
    BY DEF CheckFailed
<1>2. c \in OnWire BY <1>1 DEF OnWire
<1>3. OnWire = {c} /\ current # None /\ Kind = "text" BY <1>1, <1>2 DEF Tidy, Calls
<1>4. Audio = {} BY <1>3 DEF Tidy, Recordings
<1>5. OnWire' = {} /\ Audio' = {} BY <1>1, <1>3, <1>4, LeftSorts
<1>6. S' = S /\ Kind' = Kind /\ Prompts' = Prompts BY <1>1 DEF S, Kind, Prompts
<1>7. Calls' /\ Recordings' BY <1>1, <1>5 DEF Tidy, Calls, Recordings
<1>8. Flags' BY <1>1, <1>3, <1>5, <1>6 DEF Tidy, Flags
<1>9. WithinTasks' /\ OthersEnded' BY <1>1 DEF Tidy, WithinTasks, OthersEnded
<1> QED BY <1>7, <1>8, <1>9 DEF Tidy

\* A handler writes to the session shown and leaves its place.
LEMMA WroteHere ==
    ASSUME Shape, Tidy, current # None, NEW o \in Object, o.index = S.index,
           Write(current, o), UNCHANGED <<current, made, ended>>
    PROVE  Alike(S', o) /\ Kind' = Kind /\ WithinTasks' /\ OthersEnded'
<1>1. current \in SessionIds BY ClientAssumption DEF Shape, SessionIds
<1>2. /\ Alike(ses'[current], o)
      /\ \A x \in SessionIds \ {current} : Alike(ses'[x], ses[x])
    BY <1>1, Written DEF Shape
<1>3. S' = ses'[current] /\ S = ses[current] BY DEF S
<1>4. WithinTasks' BY <1>1, <1>2, <1>3 DEF Tidy, WithinTasks, Alike
<1> QED BY <1>2, <1>3, <1>4 DEF Tidy, OthersEnded, Kind, Alike

LEMMA HereObject ==
    ASSUME Shape, current # None
    PROVE  /\ current \in 1 .. made /\ current \in SessionIds
           /\ S \in Object /\ S = ses[current] /\ S.index \in Places /\ S.index \in Nat
BY ClientAssumption DEF Shape, SessionIds, S, Object, Places

LEMMA CheckedTidy ==
    ASSUME Shape, Tidy, NEW c \in DOMAIN calls, Checked(c)
    PROVE  Tidy'
<1>1. /\ calls' = Without({c}) /\ calls[c].kind = "attempt"
      /\ Write(calls[c].of, Judged(ses[calls[c].of], calls[c].for))
      /\ UNCHANGED <<view, current, made, mic, ended, dealt>>
    BY DEF Checked
<1>2. c \in OnWire BY <1>1 DEF OnWire
<1>3. /\ OnWire = {c} /\ current # None /\ Kind = "text" /\ calls[c].of = current
      /\ calls[c].for = S.index /\ <<current, S.index>> \in dealt
    BY <1>1, <1>2 DEF Tidy, Calls
<1>4. Audio = {} BY <1>3 DEF Tidy, Recordings
<1>5. OnWire' = {} /\ Audio' = {} BY <1>1, <1>3, <1>4, LeftSorts
<1> DEFINE o == Judged(S, S.index)
<1>6. /\ o \in Object
      /\ Has(o, S.index, TRUE, S.index, S.recording, S.transcribing, S.skipping,
             S.recorder, S.abortCtl)
    BY <1>3, HereObject, JudgedShape
<1>7. Write(current, o) BY <1>1, <1>3, HereObject
<1> HIDE DEF o
<1>8. Alike(S', o) /\ Kind' = Kind /\ WithinTasks' /\ OthersEnded'
    BY <1>1, <1>3, <1>6, <1>7, WroteHere DEF Has
<1>9. S.recorder = None /\ ~ S.transcribing BY <1>3 DEF Tidy, Flags
<1>10. Calls' /\ Recordings' BY <1>1, <1>5 DEF Tidy, Calls, Recordings
<1>11. Flags' BY <1>1, <1>3, <1>5, <1>6, <1>8, <1>9 DEF Flags, Alike, Has
<1> QED BY <1>8, <1>10, <1>11 DEF Tidy

LEMMA StartRecordTidy ==
    ASSUME Shape, Tidy, orderly, StartRecord
    PROVE  Tidy'
<1>1. /\ view = "session" /\ Kind = "speak" /\ ~ S.recording /\ ~ S.transcribing /\ ~ S.checked
      /\ OnWire = {} /\ Prompts = {}
      /\ UNCHANGED <<view, current, made, calls, ended, dealt>>
    BY DEF StartRecord, Shown, Willing, Kind
<1>2. current # None BY <1>1, ShownObject
<1>3. PICK m \in FreeRecorders :
          /\ mic' = [mic EXCEPT ![m] = [st |-> "prompt", of |-> current, at |-> S.index]]
          /\ ses' = [ses EXCEPT ![current].recorder = m]
    BY DEF StartRecord
<1>4. m \in Recorders /\ m # None BY ClientAssumption DEF FreeRecorders
<1>5. Audio = {}
    <2>1. ASSUME NEW c \in Audio PROVE FALSE
        <3>1. calls[c].kind \in {"stop", "speak", "read"} BY DEF Audio
        <3>2. S.transcribing \/ OnWire # {} BY <3>1 DEF Tidy, Recordings
        <3> QED BY <1>1, <3>2
    <2> QED BY <2>1
<1>6. Audio' = {} /\ OnWire' = {} BY <1>1, <1>5 DEF Audio, OnWire
<1>7. /\ mic'[m] = [st |-> "prompt", of |-> current, at |-> S.index]
      /\ \A x \in Recorders \ {m} : mic'[x] = mic[x]
    BY <1>3, <1>4 DEF Shape
<1>8. Prompts' = {m} BY <1>1, <1>4, <1>7 DEF Prompts
<1>9. /\ Has(S', S.index, FALSE, S.verdict, FALSE, FALSE, S.skipping, m, S.abortCtl)
      /\ \A x \in SessionIds : ses'[x].index = ses[x].index
    <2>1. ses[current] \in Object /\ current \in SessionIds /\ S = ses[current]
        BY <1>2, HereObject
    <2>2. ses' \in [SessionIds -> Object] /\ S' = ses'[current]
        BY <1>1, <1>3, <1>4, <2>1 DEF Shape, Object, S
    <2>3. Has(ses'[current], S.index, FALSE, S.verdict, FALSE, FALSE, S.skipping, m, S.abortCtl)
        BY <1>1, <1>3, <2>1 DEF Shape, Object, Has
    <2> QED BY <1>3, <2>1, <2>2, <2>3 DEF Shape, Has
<1>10. Kind' = Kind BY <1>1, <1>9 DEF Kind, Has
<1>11. Calls' /\ Recordings' BY <1>1, <1>6 DEF Tidy, Calls, Recordings
<1>12. Flags' BY <1>1, <1>6, <1>7, <1>8, <1>9, <1>10 DEF Flags, Has
<1>13. WithinTasks' /\ OthersEnded' BY <1>1, <1>9 DEF Tidy, WithinTasks, OthersEnded
<1> QED BY <1>11, <1>12, <1>13 DEF Tidy
LEMMA MicGrantedTidy ==
    ASSUME Shape, Links, Tidy, NEW m \in Recorders, MicGranted(m)
    PROVE  Tidy'
<1> DEFINE s == mic[m].of
           o == [ses[s] EXCEPT !.recording = TRUE]
<1>1. /\ m \in Prompts /\ mic' = [mic EXCEPT ![m].st = "on"] /\ Write(s, o)
      /\ UNCHANGED <<view, current, made, calls, ended, dealt>>
    BY DEF MicGranted, Prompts
<1>2. s \in SessionIds /\ current \in SessionIds \cup {None}
    BY ClientAssumption DEF MicGranted, Links, HandlersOfSessions, Shape, SessionIds
<1>3. ses[s] \in Object BY <1>2 DEF Shape
<1>4. /\ o \in Object
      /\ Has(o, ses[s].index, ses[s].checked, ses[s].verdict, TRUE, ses[s].transcribing,
             ses[s].skipping, ses[s].recorder, ses[s].abortCtl)
    BY <1>3 DEF Object, Has
<1> HIDE DEF o
<1>5. Alike(ses'[s], o) /\ \A x \in SessionIds \ {s} : Alike(ses'[x], ses[x])
    BY <1>1, <1>2, <1>4, Written DEF Shape
<1>6. /\ mic'[m].st = "on" /\ mic'[m].of = mic[m].of /\ mic'[m].at = mic[m].at
      /\ \A x \in Recorders \ {m} : mic'[x] = mic[x]
    BY <1>1 DEF Shape
<1>7. Prompts' = Prompts \ {m} BY <1>6 DEF Prompts
<1>8. Audio' = Audio /\ OnWire' = OnWire BY <1>1 DEF Audio, OnWire
<1>9. WithinTasks' BY <1>4, <1>5 DEF Tidy, WithinTasks, Alike, Has
<1>10. OthersEnded' BY <1>1 DEF Tidy, OthersEnded
<1>11. CASE current = None
    BY <1>1, <1>8, <1>9, <1>10, <1>11 DEF Tidy, Calls, Recordings, Flags
<1>12. CASE current # None
    <2>1. S' = ses'[current] /\ S = ses[current] /\ current \in SessionIds
        BY <1>1, <1>2, <1>12 DEF S
    <2>2. /\ S'.index = S.index /\ S'.checked = S.checked /\ S'.verdict = S.verdict
          /\ S'.transcribing = S.transcribing /\ S'.skipping = S.skipping
          /\ S'.recorder = S.recorder /\ S'.abortCtl = S.abortCtl
          /\ s # current => S'.recording = S.recording
        BY <1>4, <1>5, <2>1 DEF Alike, Has
    <2>3. Kind' = Kind BY <2>2 DEF Kind
    <2>4. S.recorder # None => S.recorder = m BY <1>1, <1>12 DEF Tidy, Flags
    <2>5. S.recorder # None => /\ mic[m].of = current /\ mic[m].at = S.index
                              /\ ~ S.checked /\ ~ S.transcribing /\ Audio = {} /\ OnWire = {}
                              /\ Kind = "speak" /\ Prompts \subseteq {m}
        BY <1>1, <1>12, <2>4 DEF Tidy, Flags
    <2>6. Calls' BY <1>1, <1>8, <2>2, <2>3 DEF Tidy, Calls
    <2>7. Recordings' BY <1>1, <1>8, <2>2, <2>3 DEF Tidy, Recordings
    <2>8. Flags'
        <3>1. S.transcribing => Kind = "speak" /\ OnWire = {} /\ ~ S.checked
            BY <1>12 DEF Tidy, Flags
        <3>2. S.checked => <<current, S.index>> \in dealt /\ S.verdict \in {0, S.index}
            BY <1>12 DEF Tidy, Flags
        <3>3. CASE S.recorder = None
            BY <1>1, <1>8, <2>2, <2>3, <3>1, <3>2, <3>3 DEF Flags
        <3>4. CASE S.recorder # None
            BY <1>1, <1>6, <1>7, <1>8, <2>2, <2>3, <2>4, <2>5, <3>1, <3>2, <3>4 DEF Flags
        <3> QED BY <3>3, <3>4
    <2> QED BY <1>9, <1>10, <2>6, <2>7, <2>8 DEF Tidy
<1> QED BY <1>11, <1>12

LEMMA MicDeniedTidy ==
    ASSUME Shape, Tidy, NEW m \in Recorders, MicDenied(m)
    PROVE  Tidy'
<1>1. /\ m \in Prompts /\ mic' = [mic EXCEPT ![m] = Gone]
      /\ UNCHANGED <<view, current, ses, made, calls, ended, dealt>>
    BY DEF MicDenied, Prompts
<1>2. mic'[m] = Gone /\ \A x \in Recorders \ {m} : mic'[x] = mic[x] BY <1>1 DEF Shape
<1>3. Prompts' = Prompts \ {m} BY <1>2 DEF Prompts, Gone
<1>4. /\ Audio' = Audio /\ OnWire' = OnWire /\ S' = S /\ Kind' = Kind
    BY <1>1 DEF Audio, OnWire, S, Kind
<1>5. current # None /\ S.recorder # None => S.recorder = m /\ ~ S.recording
    BY <1>1 DEF Tidy, Flags
<1>6. Calls' /\ Recordings' BY <1>1, <1>4 DEF Tidy, Calls, Recordings
<1>7. Flags' BY <1>1, <1>3, <1>4, <1>5 DEF Tidy, Flags
<1>8. WithinTasks' /\ OthersEnded' BY <1>1 DEF Tidy, WithinTasks, OthersEnded
<1> QED BY <1>6, <1>7, <1>8 DEF Tidy

\* The one handler with a recording is done, with the session's flags settled.
LEMMA RecordingDone ==
    ASSUME Shape, Tidy, NEW c \in Audio, calls' = Without({c}),
           NEW o \in Object, Write(current, o), NEW checked \in BOOLEAN, NEW verdict \in Nat,
           Has(o, S.index, checked, verdict, S.recording, FALSE, S.skipping, S.recorder, None),
           checked => verdict \in {0, S.index} /\ <<current, S.index>> \in dealt',
           dealt \subseteq dealt',
           UNCHANGED <<view, current, made, mic, ended>>
    PROVE  Tidy'
<1>1. current # None /\ Audio = {c} /\ Kind = "speak" BY DEF Tidy, Recordings
<1>2. Audio' = {} /\ OnWire' = OnWire /\ \A x \in OnWire : calls'[x] = calls[x]
    BY <1>1, LeftSorts, TwoSorts
<1>3. Alike(S', o) /\ Kind' = Kind /\ WithinTasks' /\ OthersEnded'
    BY <1>1, WroteHere DEF Has
<1>4. Has(S', S.index, checked, verdict, S.recording, FALSE, S.skipping, S.recorder, None)
    BY <1>3 DEF Alike, Has
<1>5. Calls'
    <2>1. /\ S'.index = S.index /\ S'.skipping = S.skipping
          /\ S'.recorder = S.recorder /\ ~ S'.transcribing
        BY <1>4 DEF Has
    <2>2. \A x \in OnWire : calls[x].kind # "start" /\ calls[x].kind # "attempt"
        BY <1>1 DEF Tidy, Calls, Audio, OnWire
    <2>3. \A x \in OnWire :
              /\ calls[x].kind # "start" => calls[x].of = current
              /\ calls[x].kind = "skip" =>
                    /\ S.skipping /\ S.recorder = None
                    /\ \A d \in OnWire : calls[d].kind = "skip" => d = x
                    /\ <<current, S.index>> \in dealt
              /\ calls[x].kind = "end" => S.index = Total
        BY <1>1 DEF Tidy, Calls
    <2>4. view = "session" <=> current # None BY DEF Tidy, Calls
    <2> QED BY <1>1, <1>2, <1>3, <2>1, <2>2, <2>3, <2>4, ZenonT(60) DEF Calls
<1>6. Recordings' BY <1>2 DEF Recordings
<1>7. Prompts' = Prompts BY DEF Prompts
<1>8. Flags' BY <1>1, <1>2, <1>3, <1>4, <1>7 DEF Tidy, Flags, Has
<1> QED BY <1>3, <1>5, <1>6, <1>8 DEF Tidy

LEMMA JudgedTidy ==
    ASSUME Shape, Tidy, NEW c \in DOMAIN calls, StopFailed(c) \/ Transcribed(c)
    PROVE  Tidy'
<1>1. c \in Audio BY DEF StopFailed, Transcribed, Audio
<1>2. /\ current # None /\ calls[c].of = current /\ calls[c].for = S.index
      /\ calls[c].kind \in {"speak", "read"} => <<current, S.index>> \in dealt
    BY <1>1 DEF Tidy, Recordings
<1>3. S \in Object /\ S = ses[current] /\ S.index \in Nat BY <1>2, HereObject
<1> DEFINE o == Settled(Judged(S, S.index))
<1>4. /\ o \in Object
      /\ Has(o, S.index, TRUE, S.index, S.recording, FALSE, S.skipping, S.recorder, None)
    BY <1>3, SettledJudged
<1>5. Write(current, o) /\ calls' = Without({c})
    BY <1>2, <1>3 DEF StopFailed, Transcribed
<1> HIDE DEF o
<1>6. <<current, S.index>> \in dealt' /\ dealt \subseteq dealt'
    BY <1>2 DEF StopFailed, Transcribed
<1>7. UNCHANGED <<view, current, made, mic, ended>> BY DEF StopFailed, Transcribed
<1> QED BY <1>1, <1>3, <1>4, <1>5, <1>6, <1>7, RecordingDone

LEMMA TimedOutTidy ==
    ASSUME Shape, Tidy, NEW c \in DOMAIN calls, TimedOut(c)
    PROVE  Tidy'
<1>1. c \in Audio /\ calls[c].kind = "speak" BY DEF TimedOut, Audio
<1>2. current # None /\ calls[c].of = current /\ S.transcribing
    BY <1>1 DEF Tidy, Recordings
<1>3. S \in Object /\ S = ses[current] BY <1>2, HereObject
<1>4. ~ S.checked BY <1>2 DEF Tidy, Flags
<1> DEFINE o == Aborted(current)
<1>5. /\ o \in Object
      /\ Has(o, S.index, FALSE, 0, S.recording, FALSE, S.skipping, S.recorder, None)
    BY <1>3, <1>4, GivenUp DEF Aborted, Has, Object
<1>6. Write(current, o) /\ calls' = Without({c}) BY <1>2 DEF TimedOut
<1> HIDE DEF o
<1>7. UNCHANGED <<view, current, made, mic, ended, dealt>> BY DEF TimedOut
<1> QED BY <1>1, <1>5, <1>6, <1>7, RecordingDone

LEMMA AnsweringTidy ==
    ASSUME Shape, Tidy, NEW c \in DOMAIN calls, Answering(c)
    PROVE  Tidy'
<1>1. /\ calls[c].kind = "speak" /\ calls' = [calls EXCEPT ![c].kind = "read"]
      /\ UNCHANGED <<view, current, ses, made, mic, ended, dealt>>
    BY DEF Answering
<1>2. /\ DOMAIN calls' = DOMAIN calls /\ \A x \in DOMAIN calls : x # c => calls'[x] = calls[x]
      /\ calls'[c].kind = "read" /\ calls'[c].of = calls[c].of /\ calls'[c].for = calls[c].for
    BY <1>1 DEF Shape, Waiting
<1>3. c \in Audio BY <1>1 DEF Audio
<1>4. /\ Audio' = Audio /\ OnWire' = OnWire /\ \A x \in OnWire : calls'[x] = calls[x]
    BY <1>1, <1>2 DEF Audio, OnWire
<1>5. S' = S /\ Kind' = Kind /\ Prompts' = Prompts BY <1>1 DEF S, Kind, Prompts
<1>6. /\ current # None /\ Audio = {c} /\ calls[c].of = current /\ calls[c].for = S.index
      /\ Kind = "speak" /\ S.transcribing /\ <<current, S.index>> \in dealt
    BY <1>1, <1>3 DEF Tidy, Recordings
<1>7. Calls' BY <1>1, <1>4, <1>5 DEF Tidy, Calls
<1>8. Recordings' BY <1>1, <1>2, <1>4, <1>5, <1>6 DEF Recordings
<1>9. Flags' BY <1>1, <1>4, <1>5 DEF Tidy, Flags
<1>10. WithinTasks' /\ OthersEnded' BY <1>1 DEF Tidy, WithinTasks, OthersEnded
<1> QED BY <1>7, <1>8, <1>9, <1>10 DEF Tidy
LEMMA StopEventTidy ==
    ASSUME Shape, Links, Tidy, NEW c \in DOMAIN calls, StopEvent(c)
    PROVE  Tidy'
<1> DEFINE o == [S EXCEPT !.recorder = None]
           m == calls[c].rec
           ctl == S.abortCtl
<1>1. c \in Audio /\ calls[c].kind = "stop" BY DEF StopEvent, Audio
<1>2. /\ current # None /\ Audio = {c} /\ Kind = "speak" /\ S.transcribing
      /\ calls[c].of = current /\ calls[c].for = S.index
      /\ calls[c].ctl = ctl /\ m = S.recorder
    BY <1>1 DEF Tidy, Recordings
<1>3. ctl # None /\ m # None BY <1>1, <1>2 DEF Links, HandlersOfSessions
<1>4. S \in Object /\ S = ses[current] /\ S.index \in Nat /\ current \in SessionIds
    BY <1>2, HereObject
<1>5. m \in Recorders /\ ctl \in Slots BY <1>2, <1>3, <1>4 DEF Object
<1>6. /\ OnWire = {} /\ ~ S.checked /\ Prompts = {}
    BY <1>2, <1>3 DEF Tidy, Flags
<1>7. /\ mic' = [mic EXCEPT ![m] = Gone]
      /\ UNCHANGED <<view, current, made, ended>>
    BY DEF StopEvent
<1>8. Prompts' = {} BY <1>5, <1>6, <1>7 DEF Prompts, Gone, Shape
<1>9. /\ o \in Object
      /\ Has(o, S.index, FALSE, S.verdict, S.recording, TRUE, S.skipping, None, ctl)
    BY <1>2, <1>4, <1>6 DEF Object, Has
<1>10. CASE calls[ctl].cut
    <2> DEFINE n == Settled([o EXCEPT !.verdict = 0])
    <2>1. Write(current, n) /\ calls' = Without({c}) /\ dealt' = dealt
        BY <1>2, <1>3, <1>4, <1>9, <1>10 DEF StopEvent, Upload, Has
    <2> HIDE DEF o
    <2>2. n \in Object
          /\ Has(n, S.index, FALSE, 0, S.recording, FALSE, S.skipping, None, None)
        BY <1>9, GivenUp DEF Has
    <2> HIDE DEF n
    <2>3. Alike(S', n) /\ WithinTasks' /\ OthersEnded'
        BY <1>2, <1>7, <2>1, <2>2, WroteHere DEF Has
    <2>4. Audio' = {} /\ OnWire' = {} BY <1>2, <1>6, <2>1, LeftSorts
    <2>5. Calls' /\ Recordings' BY <1>7, <2>4 DEF Tidy, Calls, Recordings
    <2>6. Flags' BY <1>6, <2>2, <2>3 DEF Flags, Alike, Has
    <2> QED BY <2>3, <2>5, <2>6 DEF Tidy
<1>11. CASE ~ calls[ctl].cut
    <2> DEFINE call == [Call("speak", current, S.index) EXCEPT !.ctl = ctl]
    <2>1. /\ ses' = [ses EXCEPT ![current] = o] /\ calls' = Begin(c, call)
          /\ dealt' = dealt \cup {<<current, S.index>>}
        BY <1>2, <1>3, <1>4, <1>9, <1>11 DEF StopEvent, Upload, Has
    <2>2. /\ call.kind = "speak" /\ call.of = current /\ call.for = S.index
          /\ call.ctl = ctl
        BY DEF Call
    <2> HIDE DEF call, o
    <2>3. /\ DOMAIN calls' = DOMAIN calls /\ calls'[c] = call
          /\ \A x \in DOMAIN calls : x # c => calls'[x] = calls[x]
        BY <2>1, Begun
    <2>4. Audio' = {c} /\ OnWire' = {}
        BY <1>1, <1>2, <1>6, <2>2, <2>3 DEF Audio, OnWire
    <2>5. S' = o /\ \A x \in SessionIds : ses'[x].index = ses[x].index
        BY <1>4, <1>7, <1>9, <2>1 DEF S, Shape, Has
    <2>6. Kind' = Kind BY <1>9, <2>5 DEF Kind, Has
    <2>7. Calls' BY <1>7, <2>4 DEF Tidy, Calls
    <2>8. Recordings' BY <1>2, <1>7, <1>9, <2>1, <2>2, <2>3, <2>4, <2>5, <2>6
        DEF Recordings, Has
    <2>9. Flags' BY <1>2, <1>9, <2>4, <2>5, <2>6 DEF Flags, Has
    <2>10. WithinTasks' /\ OthersEnded' BY <1>7, <2>5 DEF Tidy, WithinTasks, OthersEnded
    <2> QED BY <2>7, <2>8, <2>9, <2>10 DEF Tidy
<1> QED BY <1>10, <1>11

LEMMA StopRecordingTidy ==
    ASSUME Shape, Tidy, current # None, S.recording, NEW ms, StopRecording(ms),
           UNCHANGED <<view, current, made, ended>>
    PROVE  Tidy'
<1> DEFINE m == S.recorder
           r == [S EXCEPT !.recording = FALSE]
<1>1. S \in Object /\ S.index \in Nat /\ current \in SessionIds BY HereObject
<1>2. m # None /\ m \in Recorders BY <1>1 DEF StopRecording, Object
<1>3. /\ mic[m].of = current /\ mic[m].at = S.index /\ mic[m].st # "gone" /\ m \notin Prompts
      /\ ~ S.checked /\ ~ S.transcribing /\ Audio = {} /\ OnWire = {}
      /\ Kind = "speak" /\ Prompts = {}
    BY <1>2 DEF Tidy, Flags
<1>4. mic[m].st \in {"on", "inactive"} BY <1>2, <1>3 DEF Prompts, Shape
<1>5. PICK c \in FreeSlots :
         /\ calls' = Begin(c, [Call("stop", current, S.index) EXCEPT !.rec = m, !.ctl = c])
         /\ mic' = Silent(ms \cup {m})
         /\ Write(current, [r EXCEPT !.transcribing = TRUE, !.abortCtl = c])
         /\ UNCHANGED dealt
    BY <1>3, <1>4 DEF StopRecording
<1> DEFINE call == [Call("stop", current, S.index) EXCEPT !.rec = m, !.ctl = c]
           o == [r EXCEPT !.transcribing = TRUE, !.abortCtl = c]
<1>6. c \in Slots /\ c \notin DOMAIN calls BY ClientAssumption DEF FreeSlots
<1>7. /\ call.kind = "stop" /\ call.of = current /\ call.for = S.index
      /\ call.rec = m /\ call.ctl = c
    BY DEF Call
<1>8. /\ o \in Object
      /\ Has(o, S.index, FALSE, S.verdict, FALSE, TRUE, S.skipping, m, c)
    BY <1>1, <1>3, <1>6 DEF Object, Has
<1>9. calls' = Begin(c, call) /\ Write(current, o) BY <1>5
<1> HIDE DEF call, o
<1>10. /\ DOMAIN calls' = DOMAIN calls \cup {c} /\ calls'[c] = call
       /\ \A x \in DOMAIN calls : calls'[x] = calls[x]
    BY <1>6, <1>9, Begun
<1>11. Audio' = {c} /\ OnWire' = {} BY <1>3, <1>6, <1>7, <1>10 DEF Audio, OnWire
<1>12. Alike(S', o) /\ Kind' = Kind /\ WithinTasks' /\ OthersEnded'
    BY <1>8, <1>9, WroteHere DEF Has
<1>13. Has(S', S.index, FALSE, S.verdict, FALSE, TRUE, S.skipping, m, c)
    BY <1>8, <1>12 DEF Alike, Has
<1>14. Prompts' = {} BY <1>3, <1>5 DEF Prompts, Silent
<1>15. Calls' BY <1>11 DEF Tidy, Calls
<1>16. Recordings' BY <1>3, <1>7, <1>10, <1>11, <1>12, <1>13 DEF Recordings, Has
<1>17. Flags' BY <1>3, <1>11, <1>12, <1>13, <1>14 DEF Flags, Has
<1> QED BY <1>12, <1>15, <1>16, <1>17 DEF Tidy

LEMMA StopRecordTidy ==
    ASSUME Shape, Tidy, StopRecord
    PROVE  Tidy'
<1>1. current # None BY ShownObject DEF StopRecord, Shown
<1> QED BY <1>1, StopRecordingTidy DEF StopRecord

LEMMA AutoStopTidy ==
    ASSUME Shape, Links, Tidy, NEW m \in Recorders, AutoStop(m)
    PROVE  Tidy'
<1>1. mic[m].st = "on" /\ mic[m].of # None
    BY ClientAssumption DEF AutoStop, Links, HandlersOfSessions, Shape
<1>2. CASE Stops(m)
    <2>1. current # None /\ S.recording BY <1>1, <1>2 DEF Stops
    <2> QED BY <1>2, <2>1, StopRecordingTidy DEF AutoStop
<1>3. CASE ~ Stops(m)
    <2>1. mic' = Silent({m}) /\ UNCHANGED <<view, current, ses, made, calls, ended, dealt>>
        BY <1>3 DEF AutoStop
    <2>2. \A x \in Recorders : /\ mic'[x].of = mic[x].of /\ mic'[x].at = mic[x].at
                               /\ mic'[x].st = IF x = m THEN "inactive" ELSE mic[x].st
        BY <2>1 DEF Silent, Shape
    <2>3. Prompts' = Prompts BY <1>1, <2>2 DEF Prompts
    <2>4. S' = S /\ Kind' = Kind /\ Audio' = Audio /\ OnWire' = OnWire
        BY <2>1 DEF S, Kind, Audio, OnWire
    <2>5. Calls' /\ Recordings' BY <2>1, <2>4 DEF Tidy, Calls, Recordings
    <2>6. current # None /\ S.recorder # None => S.recorder \in Recorders
        BY HereObject DEF Object
    <2>7. Flags' BY <1>1, <2>1, <2>2, <2>3, <2>4, <2>6 DEF Tidy, Flags
    <2>8. WithinTasks' /\ OthersEnded' BY <2>1 DEF Tidy, WithinTasks, OthersEnded
    <2> QED BY <2>5, <2>7, <2>8 DEF Tidy
<1> QED BY <1>2, <1>3

LEMMA CancelTranscribeTidy ==
    ASSUME Shape, Links, Tidy, CancelTranscribe
    PROVE  Tidy'
<1>1. /\ current # None /\ S.transcribing /\ S.abortCtl # None
      /\ UNCHANGED <<view, current, made, mic, ended, dealt>>
    BY ShownObject DEF CancelTranscribe, Shown
<1>2. S \in Object /\ S = ses[current] /\ current \in SessionIds BY <1>1, HereObject
<1>3. ~ S.checked BY <1>1 DEF Tidy, Flags
<1>4. CASE Uploads # {}
    <2> DEFINE o == Aborted(current)
    <2>1. PICK c : c \in Uploads BY <1>4
    <2>2. c \in Audio /\ Uploads \subseteq Audio BY <2>1 DEF Uploads, Audio
    <2>3. Uploads = {c} BY <2>1, <2>2 DEF Tidy, Recordings
    <2>4. Write(current, o) /\ calls' = Without({c}) BY <1>4, <2>3 DEF CancelTranscribe
    <2>5. /\ o \in Object
          /\ Has(o, S.index, FALSE, 0, S.recording, FALSE, S.skipping, S.recorder, None)
        BY <1>2, <1>3, GivenUp DEF Aborted, Has, Object
    <2> HIDE DEF o
    <2> QED BY <1>1, <2>2, <2>4, <2>5, RecordingDone
<1>5. CASE Uploads = {}
    <2> DEFINE k == S.abortCtl
    <2>1. calls' = [calls EXCEPT ![k].cut = TRUE] /\ UNCHANGED ses
        BY <1>5 DEF CancelTranscribe
    <2>2. \A x \in DOMAIN calls : calls[x] \in Waiting BY DEF Shape
    <2>3. /\ DOMAIN calls' = DOMAIN calls
          /\ \A x \in DOMAIN calls :
                /\ calls'[x].kind = calls[x].kind /\ calls'[x].of = calls[x].of
                /\ calls'[x].for = calls[x].for /\ calls'[x].rec = calls[x].rec
                /\ calls'[x].ctl = calls[x].ctl
        BY <2>1, <2>2 DEF Waiting
    <2>4. Audio' = Audio /\ OnWire' = OnWire BY <2>3 DEF Audio, OnWire
    <2>5. S' = S /\ Kind' = Kind /\ Prompts' = Prompts BY <1>1, <2>1 DEF S, Kind, Prompts
    <2>6. Audio \subseteq DOMAIN calls /\ OnWire \subseteq DOMAIN calls BY DEF Audio, OnWire
    <2>7. Calls' BY <1>1, <2>3, <2>4, <2>5, <2>6 DEF Tidy, Calls
    <2>8. Recordings' BY <1>1, <2>3, <2>4, <2>5, <2>6 DEF Tidy, Recordings
    <2>9. Flags' BY <1>1, <2>4, <2>5 DEF Tidy, Flags
    <2>10. WithinTasks' /\ OthersEnded' BY <1>1, <2>1 DEF Tidy, WithinTasks, OthersEnded
    <2> QED BY <2>7, <2>8, <2>9, <2>10 DEF Tidy
<1> QED BY <1>4, <1>5
LEMMA SkipTidy ==
    ASSUME Shape, Tidy, Skip
    PROVE  Tidy'
<1> DEFINE o == [S EXCEPT !.skipping = TRUE, !.recorder = None, !.abortCtl = None,
                          !.recording = FALSE, !.transcribing = FALSE]
           call == Call("skip", current, S.index)
<1>1. /\ view = "session" /\ Kind = "speak" /\ ~ S.checked /\ ~ S.skipping
      /\ dealt' = dealt \cup {<<current, S.index>>}
      /\ UNCHANGED <<view, current, made, ended>>
    BY DEF Skip, Shown, Kind
<1>2. /\ current \in SessionIds /\ current # None /\ S \in Object /\ S.index \in Nat
    BY <1>1, ShownObject
<1>3. PICK c \in FreeSlots :
         calls' = [x \in DOMAIN Without(Torn) \cup {c} |-> IF x = c THEN call ELSE calls[x]]
    BY DEF Skip
<1>4. c \notin DOMAIN calls BY ClientAssumption DEF FreeSlots
<1>5. call.kind = "skip" /\ call.of = current BY <1>2, CallShape
<1> HIDE DEF call
<1>6. /\ DOMAIN calls' = (DOMAIN calls \ Torn) \cup {c} /\ calls'[c] = call
      /\ \A x \in DOMAIN calls \ Torn : calls'[x] = calls[x]
    BY <1>3, <1>4 DEF Without
<1>7. Torn \subseteq Audio BY DEF Torn, Uploads, Audio
<1>8. /\ OnWire' = OnWire \cup {c} /\ Audio' = Audio \ Torn
      /\ c \notin OnWire
      /\ \A x \in OnWire \cup Audio' : calls'[x] = calls[x]
    <2>1. OnWire \cap Torn = {} BY <1>7, TwoSorts
    <2> QED BY <1>4, <1>5, <1>6, <2>1 DEF OnWire, Audio
<1>9. /\ o \in Object
      /\ Has(o, S.index, FALSE, S.verdict, FALSE, FALSE, TRUE, None, None)
    BY <1>1, <1>2 DEF Object, Has
<1>10. Write(current, o) BY DEF Skip
<1> HIDE DEF o
<1>11. Alike(S', o) /\ Kind' = Kind /\ WithinTasks' /\ OthersEnded'
    BY <1>1, <1>2, <1>9, <1>10, WroteHere DEF Has
<1>12. Has(S', S.index, FALSE, S.verdict, FALSE, FALSE, TRUE, None, None)
    BY <1>9, <1>11 DEF Alike, Has
<1>13. ASSUME NEW x \in Audio' PROVE calls[x].kind = "read"
    <2>1. x \in Audio /\ x \notin Torn BY <1>8
    <2>2. calls[x].kind # "stop" BY <2>1 DEF Tidy, Recordings, Torn, Audio
    <2>3. calls[x].kind # "speak" BY <2>1 DEF Tidy, Recordings, Torn, Uploads, Audio
    <2> QED BY <2>1, <2>2, <2>3 DEF Audio
<1>14. ASSUME NEW x \in OnWire
       PROVE  /\ calls[x].kind = "end" /\ S.index = Total /\ Audio = {}
              /\ calls[x].of = current
    <2>1. calls[x].kind \notin {"start", "attempt", "skip"} BY <1>1, <1>2 DEF Tidy, Calls
    <2>2. calls[x].kind = "end" BY <2>1 DEF OnWire
    <2> QED BY <1>2, <2>2 DEF Tidy, Calls
<1>15. Calls'
    <2>1. ASSUME NEW x \in OnWire
          PROVE  calls'[x].kind = "end" /\ calls'[x].of = current /\ S.index = Total /\ Audio' = {}
        BY <1>8, <1>14
    <2>2. calls'[c].kind = "skip" /\ calls'[c].of = current BY <1>5, <1>6
    <2> QED BY <1>1, <1>2, <1>8, <1>11, <1>12, <2>1, <2>2 DEF Tidy, Calls, Has
<1>16. Recordings'
    <2>1. c \in OnWire' /\ calls'[c].kind = "skip" BY <1>5, <1>6, <1>8
    <2>2. ASSUME NEW x \in Audio'
          PROVE  /\ x \in Audio /\ calls'[x] = calls[x] /\ calls[x].kind = "read"
                 /\ Audio' = {x}
        BY <1>8, <1>13 DEF Tidy, Recordings
    <2> QED BY <1>1, <1>2, <1>11, <1>12, <2>1, <2>2 DEF Tidy, Recordings, Has
<1>17. Flags' BY <1>12 DEF Flags, Has
<1> QED BY <1>11, <1>15, <1>16, <1>17 DEF Tidy

LEMMA AdvanceTidy ==
    ASSUME Shape, Tidy, orderly, Advance
    PROVE  Tidy'
<1>1. /\ view = "session" /\ S.checked /\ S.index < Total /\ OnWire = {}
      /\ ses' = [ses EXCEPT ![current] = Advanced(S)]
      /\ UNCHANGED <<view, current, made, mic, calls, ended, dealt>>
    BY DEF Advance, Willing, S
<1>2. /\ current \in SessionIds /\ current # None /\ S \in Object /\ S.index \in Nat
    BY <1>1, ShownObject
<1>3. Audio = {}
    <2>1. ~ S.transcribing BY <1>1, <1>2 DEF Tidy, Flags
    <2>2. ASSUME NEW x \in Audio PROVE FALSE
        BY <1>1, <2>1 DEF Tidy, Recordings, Audio
    <2> QED BY <2>2
<1>4. /\ S' = Advanced(S) /\ \A x \in SessionIds \ {current} : ses'[x] = ses[x]
      /\ ses'[current] = Advanced(S)
    BY <1>1, <1>2 DEF S, Shape
<1>5. /\ S'.index = S.index + 1 /\ S'.recorder = None /\ ~ S'.checked /\ ~ S'.transcribing
    BY <1>2, <1>4, AdvancedShape
<1>6. OnWire' = {} /\ Audio' = {} BY <1>1, <1>3 DEF OnWire, Audio
<1>7. Calls' /\ Recordings' BY <1>1, <1>6 DEF Tidy, Calls, Recordings
<1>8. Flags' BY <1>5 DEF Flags
<1>9. WithinTasks'
    <2>1. Total \in Nat BY ClientAssumption DEF Total
    <2> QED BY <1>1, <1>2, <1>4, <1>5, <2>1 DEF Tidy, WithinTasks
<1>10. OthersEnded' BY <1>1 DEF Tidy, OthersEnded
<1> QED BY <1>7, <1>8, <1>9, <1>10 DEF Tidy

LEMMA FinishTidy ==
    ASSUME Shape, Tidy, orderly, Finish
    PROVE  Tidy'
<1>1. /\ view = "session" /\ S.checked /\ S.index >= Total /\ OnWire = {}
      /\ UNCHANGED <<view, current, ses, made, mic, ended, dealt>>
    BY DEF Finish, Willing
<1>2. /\ current \in SessionIds /\ current # None /\ S.index \in Nat /\ S = ses[current]
    BY <1>1, ShownObject DEF S
<1>3. PICK c \in FreeSlots : calls' = Begin(c, Call("end", current, 0)) BY DEF Finish
<1>4. ~ S.transcribing BY <1>1, <1>2 DEF Tidy, Flags
<1>5. Audio = {}
    <2>1. ASSUME NEW x \in Audio PROVE FALSE
        BY <1>1, <1>4 DEF Tidy, Recordings, Audio
    <2> QED BY <2>1
<1>6. OnWire' = {c} /\ Audio' = {} /\ calls'[c].kind = "end" /\ calls'[c].of = current
    BY <1>1, <1>2, <1>3, <1>5, SentSorts
<1>7. S' = S /\ Kind' = Kind /\ Prompts' = Prompts BY <1>1 DEF S, Kind, Prompts
<1>8. S.index = Total
    <2>1. Total \in Nat BY ClientAssumption DEF Total
    <2> QED BY <1>1, <1>2, <2>1 DEF Tidy, WithinTasks
<1>9. Calls' BY <1>1, <1>2, <1>6, <1>7, <1>8 DEF Tidy, Calls
<1>10. Recordings' BY <1>6 DEF Recordings
<1>11. Flags' BY <1>1, <1>2, <1>4, <1>7 DEF Tidy, Flags
<1>12. WithinTasks' /\ OthersEnded' BY <1>1 DEF Tidy, WithinTasks, OthersEnded
<1> QED BY <1>9, <1>10, <1>11, <1>12 DEF Tidy

LEMMA FinishedTidy ==
    ASSUME Shape, Tidy, NEW c \in DOMAIN calls, Finished(c)
    PROVE  Tidy'
<1>1. /\ calls[c].kind = "end" /\ ended' = ended \cup {calls[c].of}
      /\ current' = None /\ view' = "results" /\ calls' = Without({c})
      /\ UNCHANGED <<ses, made, mic, dealt>>
    BY DEF Finished
<1>2. c \in OnWire BY <1>1 DEF OnWire
<1>3. Audio = {} /\ (current # None => calls[c].of = current)
    <2>1. current # None => Audio = {} /\ calls[c].of = current
        BY <1>1, <1>2 DEF Tidy, Calls
    <2>2. current = None => Audio = {} BY DEF Tidy, Recordings
    <2> QED BY <2>1, <2>2
<1>4. /\ OnWire' = OnWire \ {c} /\ Audio' = {}
      /\ \A x \in OnWire' : calls'[x] = calls[x]
    BY <1>1, <1>3, LeftSorts
<1>5. \A x \in OnWire : calls[x].kind \notin {"start", "attempt"}
    BY <1>1, <1>2 DEF Tidy, Calls
<1>6. Calls' BY <1>1, <1>4, <1>5 DEF Calls
<1>7. Recordings' /\ Flags' BY <1>1, <1>4 DEF Recordings, Flags
<1>8. WithinTasks' BY <1>1 DEF Tidy, WithinTasks
<1>9. OthersEnded' BY <1>1, <1>3, ClientAssumption DEF Tidy, OthersEnded, Shape
<1> QED BY <1>6, <1>7, <1>8, <1>9 DEF Tidy

LEMMA FinishFailedTidy ==
    ASSUME Shape, Tidy, NEW c \in DOMAIN calls, FinishFailed(c)
    PROVE  Tidy'
<1>1. /\ calls[c].kind = "end" /\ ended \subseteq ended' /\ calls' = Without({c})
      /\ UNCHANGED <<view, current, ses, made, mic, dealt>>
    BY DEF FinishFailed
<1>2. c \in OnWire BY <1>1 DEF OnWire
<1>3. Audio = {}
    <2>1. current # None => Audio = {} BY <1>1, <1>2 DEF Tidy, Calls
    <2>2. current = None => Audio = {} BY DEF Tidy, Recordings
    <2> QED BY <2>1, <2>2
<1>4. /\ OnWire' = OnWire \ {c} /\ Audio' = {}
      /\ \A x \in OnWire' : calls'[x] = calls[x]
    BY <1>1, <1>3, LeftSorts
<1>5. \A x \in OnWire : calls[x].kind \notin {"start", "attempt"}
    BY <1>1, <1>2 DEF Tidy, Calls
<1>6. S' = S /\ Kind' = Kind /\ Prompts' = Prompts BY <1>1 DEF S, Kind, Prompts
<1>7. Calls' BY <1>1, <1>4, <1>5, <1>6, ZenonT(60) DEF Tidy, Calls
<1>8. Recordings' BY <1>4 DEF Recordings
<1>9. Flags' BY <1>1, <1>3, <1>4, <1>6 DEF Tidy, Flags
<1>10. WithinTasks' /\ OthersEnded' BY <1>1 DEF Tidy, WithinTasks, OthersEnded
<1> QED BY <1>7, <1>8, <1>9, <1>10 DEF Tidy
LEMMA SkippedTidy ==
    ASSUME Shape, Links, Tidy, orderly, NEW c \in DOMAIN calls, Skipped(c)
    PROVE  /\ Tidy'
           /\ \A x \in SessionIds :
                 \/ ses'[x].index = ses[x].index
                 \/ /\ ses'[x].index = ses[x].index + 1
                    /\ <<x, ses[x].index>> \in dealt
<1> DEFINE s == calls[c].of
           o == [ses[s] EXCEPT !.skipping = FALSE]
           after == [ses EXCEPT ![s].skipping = FALSE]
<1>1. /\ calls[c].kind = "skip" /\ \A x \in DOMAIN calls : calls[x].kind # "read"
      /\ UNCHANGED <<view, current, made, mic, ended, dealt>>
    BY DEF Skipped
<1>2. c \in OnWire /\ s \in SessionIds
    BY <1>1, ClientAssumption DEF OnWire, Links, HandlersOfSessions, Shape, SessionIds
<1>3. ses[s] \in Object BY <1>2 DEF Shape
<1>4. /\ o \in Object
      /\ Has(o, ses[s].index, ses[s].checked, ses[s].verdict, ses[s].recording,
             ses[s].transcribing, FALSE, ses[s].recorder, ses[s].abortCtl)
    BY <1>3 DEF Object, Has
<1>5. /\ after \in [SessionIds -> Object]
      /\ after[s] = o /\ \A x \in SessionIds \ {s} : after[x] = ses[x]
    BY <1>2, <1>4 DEF Shape
<1>6. \A x \in SessionIds : after[x].index = ses[x].index BY <1>4, <1>5 DEF Has
<1>7. OthersEnded' BY <1>1 DEF Tidy, OthersEnded
<1>8. CASE current = None
    <2>1. ses' = after /\ calls' = Without({c}) BY <1>8 DEF Skipped
    <2> HIDE DEF o, after
    <2>2. Audio = {} BY <1>8 DEF Tidy, Recordings
    <2>3. /\ OnWire' = OnWire \ {c} /\ Audio' = {}
          /\ \A x \in OnWire' : calls'[x] = calls[x]
        BY <2>1, <2>2, LeftSorts
    <2>4. \A x \in OnWire : calls[x].kind \notin {"start", "attempt"}
        BY <1>1, <1>2, <1>8 DEF Tidy, Calls
    <2>5. Calls' /\ Recordings' /\ Flags'
        BY <1>1, <1>8, <2>3, <2>4 DEF Tidy, Calls, Recordings, Flags
    <2>6. WithinTasks' BY <1>6, <2>1 DEF Tidy, WithinTasks
    <2> QED BY <1>6, <1>7, <2>1, <2>5, <2>6 DEF Tidy
<1>9. CASE current # None
    <2>1. /\ s = current /\ Kind = "speak" /\ S.recorder = None /\ ~ S.transcribing
          /\ <<current, S.index>> \in dealt
          /\ \A d \in OnWire : calls[d].kind = "skip" => d = c
        BY <1>1, <1>2, <1>9 DEF Tidy, Calls
    <2>2. Audio = {}
        <3>1. ASSUME NEW x \in Audio PROVE FALSE
            BY <1>1, <2>1 DEF Tidy, Recordings, Audio
        <3> QED BY <3>1
    <2>3. \A d \in OnWire : d # c => /\ calls[d].kind = "end" /\ S.index = Total
                                    /\ calls[d].of = current
        <3>1. ASSUME NEW d \in OnWire, d # c
              PROVE  calls[d].kind = "end" /\ S.index = Total /\ calls[d].of = current
            <4>1. calls[d].kind \notin {"start", "attempt", "skip"}
                BY <1>9, <2>1, <3>1 DEF Tidy, Calls
            <4>2. calls[d].kind = "end" BY <4>1 DEF OnWire
            <4> QED BY <1>9, <4>2 DEF Tidy, Calls
        <3> QED BY <3>1
    <2>4. S \in Object /\ S = ses[current] /\ S.index \in Nat /\ S' = ses'[current]
          /\ S.index <= Total /\ Total \in Nat
        BY <1>1, <1>9, HereObject, ClientAssumption DEF S, Total, Tidy, WithinTasks
    <2>5. CASE S.index < Total
        <3> DEFINE adv == Advanced(after[current])
        <3>1. ses' = [after EXCEPT ![current] = adv] /\ calls' = Without({c})
            BY <1>9, <2>1, <2>4, <2>5 DEF Skipped
        <3> HIDE DEF o, after
        <3>2. /\ adv \in Object /\ adv.index = S.index + 1 /\ adv.recorder = None
              /\ ~ adv.checked /\ ~ adv.transcribing
            BY <1>4, <1>5, <2>1, <2>4, AdvancedShape DEF Has
        <3> HIDE DEF adv
        <3>3. /\ S' = adv /\ ses'[current] = adv
              /\ \A x \in SessionIds \ {current} : ses'[x] = ses[x]
            BY <1>2, <1>5, <2>1, <2>4, <3>1
        <3>4. OnWire = {c} BY <1>2, <2>3, <2>4, <2>5
        <3>5. OnWire' = {} /\ Audio' = {} BY <2>2, <3>1, <3>4, LeftSorts
        <3>6. Calls' /\ Recordings' BY <1>1, <3>5 DEF Tidy, Calls, Recordings
        <3>7. Flags' BY <3>2, <3>3 DEF Flags
        <3>8. WithinTasks' BY <2>4, <2>5, <3>2, <3>3 DEF Tidy, WithinTasks
        <3>9. \A x \in SessionIds : \/ ses'[x].index = ses[x].index
                                   \/ /\ ses'[x].index = ses[x].index + 1
                                      /\ <<x, ses[x].index>> \in dealt
            BY <2>1, <2>4, <3>2, <3>3
        <3> QED BY <1>7, <3>6, <3>7, <3>8, <3>9 DEF Tidy
    <2>6. CASE ~ (S.index < Total)
        <3> DEFINE call == Call("end", current, 0)
        <3>1. ses' = after /\ calls' = [calls EXCEPT ![c] = call]
            BY <1>9, <2>1, <2>4, <2>6 DEF Skipped
        <3>2. call.kind = "end" /\ call.of = current BY DEF Call
        <3> HIDE DEF o, after, call
        <3>3. /\ DOMAIN calls' = DOMAIN calls /\ calls'[c] = call
              /\ \A x \in DOMAIN calls : x # c => calls'[x] = calls[x]
            BY <3>1
        <3>4. /\ Audio' = {} /\ OnWire' = OnWire
            BY <1>1, <2>2, <3>2, <3>3 DEF Audio, OnWire
        <3>5. S.index = Total BY <2>4, <2>6
        <3>6. \A x \in OnWire' : calls'[x].kind = "end" /\ calls'[x].of = current
            <4>1. OnWire \subseteq DOMAIN calls BY DEF OnWire
            <4> QED BY <2>3, <3>2, <3>3, <3>4, <4>1
        <3>7. Has(S', S.index, S.checked, S.verdict, S.recording, S.transcribing, FALSE,
                  S.recorder, S.abortCtl)
            BY <1>4, <1>5, <2>1, <2>4, <3>1 DEF Has
        <3>8. Calls' BY <1>1, <1>9, <3>4, <3>5, <3>6, <3>7 DEF Tidy, Calls, Has
        <3>9. Recordings' BY <3>4 DEF Recordings
        <3>10. Flags' BY <1>1, <1>9, <2>1, <3>7 DEF Tidy, Flags, Has
        <3>11. WithinTasks' BY <1>6, <3>1 DEF Tidy, WithinTasks
        <3> QED BY <1>6, <1>7, <3>1, <3>8, <3>9, <3>10, <3>11 DEF Tidy
    <2> QED BY <2>5, <2>6
<1> QED BY <1>8, <1>9
-----------------------------------------------------------------------------
(* The theorems *)

PageInv == Shape /\ Links /\ (orderly => Tidy)

LEMMA InitPage ==
    ASSUME Init
    PROVE  PageInv
<1>1. Shape /\ Links BY InitLinks
<1>2. /\ view = "home" /\ current = None /\ made = 0 /\ DOMAIN calls = {}
      /\ ses = [s \in 1 .. MaxSessions |-> New]
    BY DEF Init
<1>3. OnWire = {} /\ Audio = {} BY <1>2 DEF OnWire, Audio
<1>4. Calls /\ Recordings /\ Flags BY <1>2, <1>3 DEF Calls, Recordings, Flags
<1>5. WithinTasks
    <2>1. Total \in Nat /\ Total > 0 BY ClientAssumption DEF Total
    <2>2. \A s \in SessionIds : ses[s].index = 1 BY <1>2 DEF SessionIds, New
    <2> QED BY <2>1, <2>2 DEF WithinTasks
<1>6. OthersEnded BY <1>2 DEF OthersEnded
<1> QED BY <1>1, <1>4, <1>5, <1>6 DEF PageInv, Tidy

\* One step: the invariant is kept, and an orderly learner's sessions move on by one
\* task, which was dealt with.
MovesOn ==
    \A s \in SessionIds : ses'[s].index # ses[s].index =>
        /\ ses'[s].index = ses[s].index + 1
        /\ <<s, ses[s].index>> \in dealt

LEMMA LearnerTidy ==
    ASSUME Shape, Links, Tidy, orderly, Learner
    PROVE  Tidy' /\ MovesOn
<1>1. CASE StartSession \/ Again \/ Check \/ Finish
    <2>1. UNCHANGED ses BY <1>1 DEF StartSession, Again, Check, Finish
    <2> QED BY <1>1, <2>1, StartSessionTidy, AgainTidy, CheckTidy, FinishTidy DEF MovesOn
<1>2. CASE StartRecord \/ StopRecord \/ CancelTranscribe \/ Skip
    <2>1. InPlace
        BY <1>2, StartRecordLinks, StopRecordLinks, CancelTranscribeLinks, SkipLinks DEF Learner
    <2> QED BY <1>2, <2>1, StartRecordTidy, StopRecordTidy, CancelTranscribeTidy, SkipTidy
        DEF MovesOn, InPlace
<1>3. CASE Advance
    <2>1. /\ current \in SessionIds /\ current # None /\ S \in Object /\ S = ses[current]
        BY <1>3, ShownObject DEF Advance, S
    <2>2. ses' = [ses EXCEPT ![current] = Advanced(S)] BY <1>3 DEF Advance, S
    <2>3. <<current, S.index>> \in dealt BY <1>3, <2>1 DEF Advance, Tidy, Flags
    <2>4. /\ \A x \in SessionIds \ {current} : ses'[x] = ses[x]
          /\ ses'[current].index = S.index + 1
        BY <2>1, <2>2, AdvancedShape DEF Shape
    <2>5. MovesOn BY <2>1, <2>3, <2>4 DEF MovesOn
    <2> QED BY <1>3, <2>5, AdvanceTidy
<1> QED BY <1>1, <1>2, <1>3 DEF Learner

LEMMA ResumeTidy ==
    ASSUME Shape, Links, Tidy, orderly, NEW c \in DOMAIN calls, Resume(c)
    PROVE  Tidy' /\ MovesOn
<1>1. CASE Started(c) \/ NotStarted(c) \/ CheckFailed(c) \/ Answering(c)
           \/ Finished(c) \/ FinishFailed(c)
    <2>1. UNCHANGED ses
        BY <1>1 DEF Started, NotStarted, CheckFailed, Answering, Finished, FinishFailed
    <2> QED BY <1>1, <2>1, StartedTidy, NotStartedTidy, CheckFailedTidy, AnsweringTidy,
        FinishedTidy, FinishFailedTidy DEF MovesOn
<1>2. CASE Checked(c) \/ StopEvent(c) \/ StopFailed(c) \/ Transcribed(c) \/ TimedOut(c)
    <2>1. InPlace
        BY <1>2, CheckedLinks, StopEventLinks, JudgedLinks, TimedOutLinks DEF Resume
    <2> QED BY <1>2, <2>1, CheckedTidy, StopEventTidy, JudgedTidy, TimedOutTidy
        DEF MovesOn, InPlace
<1>3. CASE Skipped(c) BY <1>3, SkippedTidy DEF MovesOn
<1> QED BY <1>1, <1>2, <1>3 DEF Resume

LEMMA PageStep ==
    ASSUME PageInv, [Next]_vars
    PROVE  PageInv' /\ (orderly => MovesOn)
<1>1. Shape /\ Links /\ (orderly => Tidy) BY DEF PageInv
<1>2. Shape' /\ Links' BY <1>1, NextLinks
<1>3. orderly' = orderly BY DEF Next, Learner, Resume, Prompt, Timer, vars
<1>4. ASSUME orderly PROVE Tidy' /\ MovesOn
    <2>1. CASE Learner BY <1>1, <1>4, <2>1, LearnerTidy
    <2>2. ASSUME NEW c \in DOMAIN calls, Resume(c) PROVE Tidy' /\ MovesOn
        BY <1>1, <1>4, <2>2, ResumeTidy
    <2>3. ASSUME NEW m \in Recorders, Prompt(m) \/ Timer(m) PROVE Tidy' /\ MovesOn
        <3>1. CASE MicDenied(m) BY <1>1, <1>4, <3>1, MicDeniedTidy DEF MicDenied, MovesOn
        <3>2. CASE MicGranted(m)
            BY <1>1, <1>3, <1>4, <3>2, MicGrantedTidy, MicGrantedLinks DEF MovesOn, InPlace
        <3>3. CASE AutoStop(m)
            BY <1>1, <1>3, <1>4, <3>3, AutoStopTidy, AutoStopLinks DEF MovesOn, InPlace
        <3> QED BY <2>3, <3>1, <3>2, <3>3 DEF Prompt, Timer
    <2>4. CASE UNCHANGED vars
        <3>1. /\ UNCHANGED <<view, current, ses, made, mic, calls, ended, dealt>>
              /\ Audio' = Audio /\ OnWire' = OnWire /\ Prompts' = Prompts /\ S' = S /\ Kind' = Kind
            BY <2>4 DEF vars, Audio, OnWire, Prompts, S, Kind
        <3> QED BY <1>1, <1>4, <3>1
            DEF Tidy, Calls, Recordings, Flags, WithinTasks, OthersEnded, MovesOn
    <2> QED BY <2>1, <2>2, <2>3, <2>4 DEF Next
<1> QED BY <1>2, <1>3, <1>4 DEF PageInv

LEMMA PageAlways == Spec => []PageInv
<1>1. Init => PageInv BY InitPage
<1>2. PageInv /\ [Next]_vars => PageInv' BY PageStep
<1> QED BY <1>1, <1>2, PTL DEF Spec

\* The page's state keeps its shape, for any learner: the controller Cancel would abort
\* is a waiting handler's, and an orderly learner is never past the last task.
THEOREM TypeCorrect == Spec => []TypeOK
<1>1. PageInv => TypeOK
    <2> SUFFICES ASSUME PageInv PROVE TypeOK OBVIOUS
    <2>1. \A s \in SessionIds : ses[s].abortCtl \in DOMAIN calls \cup {None}
        BY DEF PageInv, Links, Controllers, Audio
    <2> QED BY <2>1 DEF PageInv, Shape, Tidy, WithinTasks, TypeOK
<1> QED BY <1>1, PageAlways, PTL

\* An orderly learner sees the verdict on the task shown, whatever is skipped,
\* cancelled, timed out or stopped on its own.
THEOREM VerdictsBelong == Spec => []VerdictOfItsTask
<1>1. PageInv => VerdictOfItsTask
    BY DEF PageInv, Shape, Tidy, Flags, VerdictOfItsTask, VerdictFits
<1> QED BY <1>1, PageAlways, PTL

\* An orderly learner's sessions leave the page only when the server has ended them.
THEOREM NoneLeftOpen == Spec => []LeftOnlyWhenEnded
<1>1. PageInv => LeftOnlyWhenEnded
    BY DEF PageInv, Tidy, OthersEnded, LeftOnlyWhenEnded
<1> QED BY <1>1, PageAlways, PTL

\* The page moves an orderly learner one task at a time, and past a task only when it
\* was sent to the server or shown to have failed.
THEOREM EachTaskDealtWith == Spec => NoTaskPassedOver
<1>1. PageInv /\ [Next]_vars =>
        [orderly => \A s \in SessionIds : ses'[s].index # ses[s].index =>
            /\ ses'[s].index = ses[s].index + 1
            /\ <<s, ses[s].index>> \in dealt]_vars
    BY PageStep DEF MovesOn
<1> QED BY <1>1, PageAlways, PTL DEF Spec, NoTaskPassedOver
=============================================================================

---------------------------- MODULE XrAppProofs ----------------------------
(***************************************************************************)
(* Theorems about XrApp, for every list of extra streams, every set of     *)
(* receivers and any number of commands and state changes.                 *)
(***************************************************************************)
EXTENDS XrApp, SequenceTheorems, TLAPS

-----------------------------------------------------------------------------
(***************************************************************************)
(* The session's life cycle                                                *)
(***************************************************************************)
\* handle_session_state and render_frame: session_running_ is true only of a session the
\* runtime has begun, for every order of the runtime's events and every failed begin.
THEOREM XrRunningIsBegun == XSpec => []RunningIsBegun
<1>1. XInit => RunningIsBegun
  BY DEF XInit, RunningIsBegun
<1>2. ASSUME RunningIsBegun, [XNext]_xvars PROVE RunningIsBegun'
  <2> USE DEF android, runtime, scene
  <2>1. CASE poll_events
    BY <1>2, <2>1 DEF poll_events, handle_session_state, AfterStop, RunningIsBegun
  <2>2. ASSUME NEW to \in {"ready", "stopping", "exiting", "lost"}, RuntimeMoves(to)
        PROVE  RunningIsBegun'
    BY <1>2, <2>2 DEF RuntimeMoves, RunningIsBegun
  <2>3. CASE UNCHANGED <<rt, session_running>>
    BY <1>2, <2>3 DEF RunningIsBegun
  <2>4. ASSUME NEW ok \in BOOLEAN, init_loader(ok) PROVE UNCHANGED <<rt, session_running>>
    BY <2>4 DEF init_loader
  <2>5. ASSUME create \/ Process \/ PollEnds \/ pump_network \/ render_frame \/ DestroyApp
        PROVE  UNCHANGED <<rt, session_running>>
    BY <2>5 DEF create, Process, PollEnds, pump_network, render_frame, DestroyApp
  <2>6. ASSUME NEW c, AndroidSends(c) PROVE UNCHANGED <<rt, session_running>>
    BY <2>6 DEF AndroidSends
  <2>7. ASSUME NEW k, CodecRenders(k) PROVE UNCHANGED <<rt, session_running>>
    BY <2>7 DEF CodecRenders
  <2>8. CASE UNCHANGED xvars
    BY <2>3, <2>8 DEF xvars
  <2> QED
    BY <1>2, <2>1, <2>2, <2>3, <2>4, <2>5, <2>6, <2>7, <2>8 DEF XNext, MainStep
<1> QED
  BY <1>1, <1>2, PTL DEF XSpec

-----------------------------------------------------------------------------
(***************************************************************************)
(* The windows' pictures                                                   *)
(***************************************************************************)
WindowSet ==
  [stream : Nat, surface : BOOLEAN, active : BOOLEAN, painted : BOOLEAN, fresh : BOOLEAN,
   shows : {"nothing", "test", "video"}]

\* Only a window with a decoder shows video, and create finds no window.
WInv ==
  /\ windows \in Seq(WindowSet)
  /\ \A i \in 1..Len(windows) : windows[i].shows = "video" => windows[i].active
  /\ pc \in {"loader", "create"} => windows = << >>

\* What the step property says of two lists of windows.
Advances(v, w) ==
  \A i \in 1..Len(v) :
    /\ v[i].shows = "video" => w[i].shows = "video"
    /\ v[i].shows = "test" => w[i].shows # "nothing"

LEMMA NewWindow ==
  ASSUME NEW s \in Nat, NEW surface \in BOOLEAN
  PROVE  /\ Window(s, surface) \in WindowSet /\ Window(s, surface).shows = "nothing"
         /\ Window(s, surface).stream = s
  BY DEF Window, WindowSet

\* A function on 1..n is a sequence; the parts of a concatenation.
LEMMA TableIsSeq ==
  ASSUME NEW S, NEW n \in Nat, NEW f, f = [i \in 1..n |-> f[i]], \A i \in 1..n : f[i] \in S
  PROVE  f \in Seq(S) /\ Len(f) = n
<1>1. f \in [1..n -> S]
  OBVIOUS
<1> QED
  BY <1>1

LEMMA Joined ==
  ASSUME NEW S, NEW s \in Seq(S), NEW t \in Seq(S)
  PROVE  /\ s \o t \in Seq(S) /\ Len(s \o t) = Len(s) + Len(t)
         /\ \A i \in 1..Len(s) : (s \o t)[i] = s[i]
         /\ \A i \in 1..(Len(s) + Len(t)) : i > Len(s) => (s \o t)[i] = t[i - Len(s)]
  OBVIOUS

\* One window's turn in render_frame.
LEMMA Painted ==
  ASSUME NEW w \in WindowSet, w.shows = "video" => w.active, NEW acquired \in BOOLEAN
  PROVE  LET v == Paint(w, acquired) IN
         /\ v \in WindowSet
         /\ v.shows = "video" => v.active
         /\ w.shows = "video" => v.shows = "video"
         /\ w.shows = "test" => v.shows # "nothing"
<1>1. CASE w.active /\ w.fresh
  <2>1. Paint(w, acquired) = [w EXCEPT !.fresh = FALSE, !.shows = IF acquired THEN "video" ELSE @]
    BY <1>1 DEF Paint
  <2> QED
    BY <1>1, <2>1 DEF WindowSet
<1>2. CASE ~(w.active /\ w.fresh) /\ TestImageDue(w)
  <2>1. Paint(w, acquired) = [w EXCEPT !.painted = TRUE, !.shows = IF acquired THEN "test" ELSE @]
    BY <1>2 DEF Paint
  <2>2. ~w.active
    BY <1>2 DEF TestImageDue
  <2> QED
    BY <2>1, <2>2 DEF WindowSet
<1>3. CASE ~(w.active /\ w.fresh) /\ ~TestImageDue(w)
  <2>1. Paint(w, acquired) = w
    BY <1>3 DEF Paint
  <2> QED
    BY <2>1
<1> QED
  BY <1>1, <1>2, <1>3

LEMMA StartedWindows ==
  ASSUME WInv, NEW k \in 0..Len(Extras), NEW up \in [1..k -> DOMAIN Extras], NEW made, NEW run,
         start_decoder(ExtraWindows(up, k), made, run)
  PROVE  /\ windows' \in Seq(WindowSet) /\ Len(windows) <= Len(windows')
         /\ \A i \in 1..Len(windows') : windows'[i].shows = "video" => windows'[i].active
         /\ Advances(windows, windows')
<1> DEFINE extra == ExtraWindows(up, k)
           ws == windows \o extra
<1>1. k \in Nat /\ \A i \in 1..k : Extras[up[i]] \in Nat
  BY XrAssumption
<1>2. extra \in Seq(WindowSet) /\ Len(extra) = k /\ \A i \in 1..k : extra[i].shows = "nothing"
  <2>1. \A i \in 1..k : Window(Extras[up[i]], TRUE) \in WindowSet
                        /\ Window(Extras[up[i]], TRUE).shows = "nothing"
    BY <1>1, NewWindow
  <2>2. extra = [i \in 1..k |-> extra[i]] /\ \A i \in 1..k : extra[i] = Window(Extras[up[i]], TRUE)
    BY DEF ExtraWindows
  <2> HIDE DEF extra
  <2>3. \A i \in 1..k : extra[i] \in WindowSet /\ extra[i].shows = "nothing"
    BY <2>1, <2>2
  <2> QED
    BY <1>1, <2>2, <2>3, TableIsSeq
<1> HIDE DEF extra
<1>3. /\ ws \in Seq(WindowSet) /\ Len(ws) = Len(windows) + k /\ Len(windows) \in Nat
      /\ \A i \in 1..Len(windows) : ws[i] = windows[i]
      /\ \A i \in 1..Len(ws) : ws[i] \in WindowSet /\ (ws[i].shows = "video" => ws[i].active)
  <2>1. /\ ws \in Seq(WindowSet) /\ Len(ws) = Len(windows) + k /\ Len(windows) \in Nat
        /\ \A i \in 1..Len(windows) : ws[i] = windows[i]
        /\ \A i \in 1..Len(ws) : i > Len(windows) => ws[i] = extra[i - Len(windows)]
    <3>1. windows \in Seq(WindowSet) /\ Len(windows) \in Nat
      BY DEF WInv
    <3>2. extra \in Seq(WindowSet)
      BY <1>2
    <3>3. /\ ws \in Seq(WindowSet) /\ Len(ws) = Len(windows) + Len(extra)
          /\ \A i \in 1..Len(windows) : ws[i] = windows[i]
          /\ \A i \in 1..(Len(windows) + Len(extra)) : i > Len(windows) => ws[i] = extra[i - Len(windows)]
      BY <3>1, <3>2, Joined
    <3> HIDE DEF ws
    <3> QED
      BY <1>2, <3>1, <3>3
  <2>2. ASSUME NEW i \in 1..Len(ws) PROVE ws[i] \in WindowSet /\ (ws[i].shows = "video" => ws[i].active)
    <3>1. CASE i \in 1..Len(windows)
      BY <2>1, <3>1 DEF WInv
    <3>2. CASE i > Len(windows)
      <4>1. i - Len(windows) \in 1..k
        BY <1>1, <2>1, <3>2
      <4> QED
        BY <1>2, <2>1, <3>2, <4>1
    <3> QED
      BY <2>1, <3>1, <3>2
  <2> QED
    BY <2>1, <2>2
<1>4. windows' = [i \in DOMAIN ws |-> [ws[i] EXCEPT !.active = @ \/ ws[i].stream \in made]]
  BY DEF start_decoder, extra
<1> HIDE DEF ws
<1>5. DOMAIN ws = 1..Len(ws) /\ Len(ws) \in Nat
  BY <1>3
<1>6. ASSUME NEW i \in 1..Len(ws)
      PROVE  /\ windows'[i] \in WindowSet /\ windows'[i].shows = ws[i].shows
             /\ ws[i].active => windows'[i].active
  <2>1. windows'[i] = [ws[i] EXCEPT !.active = @ \/ ws[i].stream \in made]
    BY <1>4, <1>5
  <2>2. ws[i] \in WindowSet
    BY <1>3
  <2> QED
    BY <2>1, <2>2 DEF WindowSet
<1>7. windows' \in Seq(WindowSet) /\ Len(windows') = Len(ws)
  <2>1. windows' = [i \in 1..Len(ws) |-> windows'[i]]
    BY <1>4, <1>5
  <2> QED
    BY <1>5, <1>6, <2>1, TableIsSeq
<1>8. Len(windows) <= Len(windows') /\ \A i \in 1..Len(windows) : i \in 1..Len(ws)
  BY <1>1, <1>3, <1>7
<1>9. Advances(windows, windows')
  BY <1>3, <1>6, <1>8 DEF Advances
<1>10. \A i \in 1..Len(windows') : windows'[i].shows = "video" => windows'[i].active
  BY <1>3, <1>6, <1>7
<1> QED
  BY <1>7, <1>8, <1>9, <1>10

LEMMA WStep ==
  ASSUME WInv, [XNext]_xvars
  PROVE  WInv' /\ Advances(windows, windows')
<1> USE DEF android, runtime, scene
<1>0. Len(windows) \in Nat /\ DOMAIN windows = 1..Len(windows)
  BY DEF WInv
<1>1. ASSUME UNCHANGED windows, pc' \in {"loader", "create"} => pc \in {"loader", "create"}
      PROVE  WInv' /\ Advances(windows, windows')
  BY <1>1 DEF WInv, Advances
<1>2. ASSUME NEW ok \in BOOLEAN, init_loader(ok) PROVE WInv' /\ Advances(windows, windows')
  BY <1>1, <1>2 DEF init_loader
<1>3. CASE create
  <2>1. windows = << >>
    BY <1>3 DEF create, WInv
  <2>2. PICK n \in 0..Len(Parts), ok \in BOOLEAN :
          /\ windows' = IF n >= PrimaryAt THEN <<Window(0, ok)>> ELSE << >>
          /\ pc' \in {"poll", "teardown"}
    BY <1>3 DEF create
  <2>3. Window(0, ok) \in WindowSet /\ Window(0, ok).shows = "nothing"
    BY NewWindow
  <2>4. WInv'
    BY <2>2, <2>3 DEF WInv
  <2> QED
    BY <2>1, <2>4 DEF Advances
<1>4. CASE Process \/ PollEnds \/ poll_events \/ DestroyApp
  BY <1>1, <1>4 DEF Process, PollEnds, poll_events, DestroyApp
<1>5. CASE pump_network
  <2>1. CASE Idle
    BY <1>1, <1>5, <2>1 DEF pump_network, Idle
  <2>2. CASE ~Idle
    <3>1. PICK k \in 0..Len(Extras), made \in SUBSET Served, run \in SUBSET Served :
            \E up \in [1..k -> DOMAIN Extras] : start_decoder(ExtraWindows(up, k), made, run)
      BY <1>5, <2>2 DEF pump_network
    <3>2. PICK up \in [1..k -> DOMAIN Extras] : start_decoder(ExtraWindows(up, k), made, run)
      BY <3>1
    <3>3. /\ windows' \in Seq(WindowSet)
          /\ \A i \in 1..Len(windows') : windows'[i].shows = "video" => windows'[i].active
          /\ Advances(windows, windows')
      BY <3>2, StartedWindows
    <3> QED
      BY <1>5, <3>3 DEF pump_network, WInv
  <2> QED
    BY <2>1, <2>2
<1>6. CASE render_frame
  <2>0. pc' \notin {"loader", "create"}
    BY <1>6 DEF render_frame, AfterFrame
  <2>1. CASE UNCHANGED windows
    BY <1>1, <2>0, <2>1
  <2>2. CASE ~UNCHANGED windows
    <3>1. PICK got \in SUBSET DOMAIN windows :
            windows' = [k \in DOMAIN windows |-> Paint(windows[k], k \in got)]
      BY <1>6, <2>2 DEF render_frame
    <3>2. ASSUME NEW k \in 1..Len(windows)
          PROVE  /\ windows'[k] \in WindowSet
                 /\ windows'[k].shows = "video" => windows'[k].active
                 /\ windows[k].shows = "video" => windows'[k].shows = "video"
                 /\ windows[k].shows = "test" => windows'[k].shows # "nothing"
      <4>1. windows'[k] = Paint(windows[k], k \in got)
        BY <1>0, <3>1
      <4>2. windows[k] \in WindowSet /\ (windows[k].shows = "video" => windows[k].active)
        BY DEF WInv
      <4>3. (k \in got) \in BOOLEAN
        OBVIOUS
      <4> QED
        BY <4>1, <4>2, <4>3, Painted
    <3>3. windows' \in Seq(WindowSet) /\ Len(windows') = Len(windows)
      <4>1. windows' = [k \in 1..Len(windows) |-> windows'[k]]
        BY <1>0, <3>1
      <4> QED
        BY <1>0, <3>2, <4>1, TableIsSeq
    <3> QED
      BY <2>0, <3>2, <3>3 DEF WInv, Advances
  <2> QED
    BY <2>1, <2>2
<1>7. ASSUME NEW c, AndroidSends(c) PROVE WInv' /\ Advances(windows, windows')
  BY <1>1, <1>7 DEF AndroidSends
<1>8. ASSUME NEW to, RuntimeMoves(to) PROVE WInv' /\ Advances(windows, windows')
  BY <1>1, <1>8 DEF RuntimeMoves
<1>9. ASSUME NEW k, CodecRenders(k) PROVE WInv' /\ Advances(windows, windows')
  <2>1. k \in 1..Len(windows) /\ windows' = [windows EXCEPT ![k].fresh = TRUE] /\ UNCHANGED pc
        /\ pc \notin {"loader", "create"}
    BY <1>0, <1>9 DEF CodecRenders, InLoop
  <2>2. ASSUME NEW i \in 1..Len(windows)
        PROVE  /\ windows'[i] \in WindowSet /\ windows'[i].shows = windows[i].shows
               /\ windows'[i].active = windows[i].active
    <3>1. windows[i] \in WindowSet
      BY DEF WInv
    <3>2. windows'[i] = IF i = k THEN [windows[i] EXCEPT !.fresh = TRUE] ELSE windows[i]
      BY <1>0, <2>1
    <3> QED
      BY <3>1, <3>2 DEF WindowSet
  <2>3. windows' \in Seq(WindowSet) /\ Len(windows') = Len(windows)
    <3>1. windows' = [i \in 1..Len(windows) |-> windows'[i]]
      BY <1>0, <2>1
    <3> QED
      BY <1>0, <2>2, <3>1, TableIsSeq
  <2> QED
    BY <2>1, <2>2, <2>3 DEF WInv, Advances
<1>10. CASE UNCHANGED xvars
  BY <1>1, <1>10 DEF xvars
<1> QED
  BY <1>2, <1>3, <1>4, <1>5, <1>6, <1>7, <1>8, <1>9, <1>10 DEF XNext, MainStep

\* render_frame and start_decoder: a window that has shown its desktop never falls back to
\* the test image, and no picture disappears.
THEOREM XrPictureAdvances == XSpec => PictureAdvances
<1>1. XInit => WInv
  BY DEF XInit, WInv
<1>2. WInv /\ [XNext]_xvars => WInv'
  BY WStep
<1>3. WInv /\ [XNext]_xvars =>
        [\A i \in DOMAIN windows :
           /\ windows[i].shows = "video" => windows'[i].shows = "video"
           /\ windows[i].shows = "test" => windows'[i].shows # "nothing"]_xvars
  <2> SUFFICES ASSUME WInv, [XNext]_xvars
               PROVE  \A i \in DOMAIN windows :
                        /\ windows[i].shows = "video" => windows'[i].shows = "video"
                        /\ windows[i].shows = "test" => windows'[i].shows # "nothing"
    OBVIOUS
  <2>1. Advances(windows, windows') /\ DOMAIN windows = 1..Len(windows)
    BY WStep DEF WInv
  <2> QED
    BY <2>1 DEF Advances
<1> QED
  BY <1>1, <1>2, <1>3, PTL DEF XSpec, PictureAdvances

-----------------------------------------------------------------------------
(***************************************************************************)
(* The handles                                                             *)
(***************************************************************************)
HandleKinds ==
  {"egl", "instance", "session", "space", "eyes", "swapchain", "gl", "surface", "overlay",
   "net", "thread"}

\* While the loop runs everything the windows depend on is there, and the destructor at
\* step k has removed the kinds before the k-th.
HInv ==
  /\ held \subseteq HandleKinds \X Nat
  /\ NothingDangles
  /\ pc \in {"loader", "create"} => held = {} /\ net = "none" /\ step = 1
  /\ InLoop => /\ H("egl") \in held /\ H("session") \in held /\ step = 1
               /\ net # "none" => H("net") \in held
  /\ pc = "teardown" => step \in 1..11 /\ \A h \in held : \A i \in 1..(step - 1) : h[1] # Teardown[i]

LEMMA NeedsOf ==
  ASSUME NEW kind \in HandleKinds, NEW s \in Nat
  PROVE  LET need == Needs(<<kind, s>>) IN
         /\ kind \in {"space", "eyes", "swapchain", "overlay"} => need = {H("session")}
         /\ kind = "session" => need = {H("instance"), H("egl")}
         /\ kind \in {"gl", "surface"} => need = {H("egl")}
         /\ kind = "thread" => need = {H("net"), Surface(s)}
         /\ kind \in {"egl", "instance", "net"} => need = {}
  BY DEF Needs, HandleKinds

\* ~XrApp: what is removed at a step is needed by nothing that is left.
LEMMA TeardownStep ==
  ASSUME HInv, DestroyApp
  PROVE  HInv'
<1>1. /\ pc = "teardown" /\ held' = {h \in held : h[1] # Teardown[step]} /\ Len(Teardown) = 11
      /\ step \in 1..11
  BY DEF DestroyApp, HInv, Teardown
<1>2. \/ step < 11 /\ step' = step + 1 /\ pc' = "teardown"
      \/ pc' = "gone"
  BY <1>1 DEF DestroyApp
<1>3. NothingDangles'
  <2> SUFFICES ASSUME NEW h \in held, h[1] # Teardown[step], h[1] # "overlay"
               PROVE  Needs(h) \subseteq held'
    BY <1>1 DEF NothingDangles
  <2>1. PICK kind \in HandleKinds, s \in Nat : h = <<kind, s>>
    BY DEF HInv
  <2>2. kind # "overlay" /\ Needs(h) \subseteq held
    BY <2>1 DEF HInv, NothingDangles
  <2>3. \A i \in 1..step : kind # Teardown[i]
    BY <1>1, <2>1 DEF HInv
  <2>4. CASE kind \in {"space", "eyes", "swapchain"}
    <3>1. step < 7 /\ Teardown[step] # "session"
      BY <1>1, <2>3, <2>4 DEF Teardown
    <3> QED
      BY <1>1, <2>1, <2>2, <2>4, <3>1, NeedsOf DEF H
  <2>5. CASE kind = "session"
    <3>1. Teardown[step] # "instance" /\ Teardown[step] # "egl"
      BY <1>1, <2>3, <2>5 DEF Teardown
    <3> QED
      BY <1>1, <2>1, <2>2, <2>5, <3>1, NeedsOf DEF H
  <2>6. CASE kind \in {"gl", "surface"}
    <3>1. Teardown[step] # "egl"
      BY <1>1, <2>3, <2>6 DEF Teardown
    <3> QED
      BY <1>1, <2>1, <2>2, <2>6, <3>1, NeedsOf DEF H
  <2>7. CASE kind = "thread"
    <3>1. Teardown[step] # "net" /\ Teardown[step] # "surface"
      BY <1>1, <2>3, <2>7 DEF Teardown
    <3> QED
      BY <1>1, <2>1, <2>2, <2>7, <3>1, NeedsOf DEF H, Surface
  <2>8. CASE kind \in {"egl", "instance", "net"}
    BY <2>1, <2>8, NeedsOf
  <2> QED
    BY <2>2, <2>4, <2>5, <2>6, <2>7, <2>8 DEF HandleKinds
<1>4. pc' = "teardown" => step' \in 1..11 /\ \A h \in held' : \A i \in 1..(step' - 1) : h[1] # Teardown[i]
  <2> SUFFICES ASSUME pc' = "teardown"
               PROVE  step' \in 1..11 /\ \A h \in held' : \A i \in 1..(step' - 1) : h[1] # Teardown[i]
    OBVIOUS
  <2>1. step' = step + 1 /\ step' \in 1..11 /\ \A i \in 1..(step' - 1) : i \in 1..(step - 1) \/ i = step
    BY <1>1, <1>2
  <2>2. \A h \in held : \A i \in 1..(step - 1) : h[1] # Teardown[i]
    BY <1>1 DEF HInv
  <2> HIDE DEF Teardown
  <2> QED
    BY <1>1, <2>1, <2>2
<1>5. held' \subseteq HandleKinds \X Nat
  BY <1>1 DEF HInv
<1> QED
  BY <1>2, <1>3, <1>4, <1>5 DEF HInv, InLoop

\* Where the elements of a concatenation are, and of one or two more elements.
LEMMA JoinAt ==
  ASSUME NEW S, NEW s \in Seq(S), NEW t \in Seq(S)
  PROVE  /\ s \o t \in Seq(S) /\ Len(s \o t) = Len(s) + Len(t)
         /\ \A i \in 1..Len(s) : (s \o t)[i] = s[i]
         /\ \A i \in 1..Len(t) : (s \o t)[Len(s) + i] = t[i]
<1>1. s \o t \in Seq(S) /\ Len(s \o t) = Len(s) + Len(t)
  OBVIOUS
<1>2. \A i \in 1..Len(s) : (s \o t)[i] = s[i]
  OBVIOUS
<1>3. \A i \in 1..Len(t) : (s \o t)[Len(s) + i] = t[i]
  <2> SUFFICES ASSUME NEW i \in 1..Len(t) PROVE (s \o t)[Len(s) + i] = t[i]
    OBVIOUS
  <2>1. Len(s) + i \in 1..(Len(s) + Len(t)) /\ Len(s) + i > Len(s) /\ Len(s) + i - Len(s) = i
    OBVIOUS
  <2>2. (s \o t)[Len(s) + i] = t[Len(s) + i - Len(s)]
    BY <2>1, ConcatProperties
  <2> QED
    BY <2>1, <2>2
<1> QED
  BY <1>1, <1>2, <1>3

LEMMA JoinOne ==
  ASSUME NEW S, NEW s \in Seq(S), NEW b \in S
  PROVE  /\ s \o <<b>> \in Seq(S) /\ Len(s \o <<b>>) = Len(s) + 1
         /\ \A i \in 1..Len(s) : (s \o <<b>>)[i] = s[i]
         /\ (s \o <<b>>)[Len(s) + 1] = b
<1> DEFINE t == <<b>>
<1>1. t \in Seq(S)
  OBVIOUS
<1>2. Len(t) = 1 /\ t[1] = b
  OBVIOUS
<1> HIDE DEF t
<1>3. /\ s \o t \in Seq(S) /\ Len(s \o t) = Len(s) + Len(t) /\ \A i \in 1..Len(s) : (s \o t)[i] = s[i]
      /\ \A i \in 1..Len(t) : (s \o t)[Len(s) + i] = t[i]
  BY <1>1, JoinAt
<1>4. (s \o t)[Len(s) + 1] = b
  BY <1>2, <1>3
<1> QED
  BY <1>2, <1>3, <1>4 DEF t

LEMMA JoinTwo ==
  ASSUME NEW S, NEW s \in Seq(S), NEW b \in S, NEW c \in S
  PROVE  /\ s \o <<b, c>> \in Seq(S) /\ Len(s \o <<b, c>>) = Len(s) + 2
         /\ \A i \in 1..Len(s) : (s \o <<b, c>>)[i] = s[i]
         /\ (s \o <<b, c>>)[Len(s) + 1] = b /\ (s \o <<b, c>>)[Len(s) + 2] = c
<1> DEFINE t == <<b, c>>
<1>1. t \in Seq(S)
  OBVIOUS
<1>2. Len(t) = 2 /\ t[1] = b /\ t[2] = c
  OBVIOUS
<1> HIDE DEF t
<1>3. /\ s \o t \in Seq(S) /\ Len(s \o t) = Len(s) + Len(t) /\ \A i \in 1..Len(s) : (s \o t)[i] = s[i]
      /\ \A i \in 1..Len(t) : (s \o t)[Len(s) + i] = t[i]
  BY <1>1, JoinAt
<1>4. (s \o t)[Len(s) + 1] = b /\ (s \o t)[Len(s) + 2] = c
  BY <1>2, <1>3
<1> QED
  BY <1>2, <1>3, <1>4 DEF t
\* The parts of create, one by one.
LEMMA PartsAre ==
  /\ Len(Parts) = 7
  /\ Parts[1] = H("egl") /\ Parts[2] = H("instance") /\ Parts[3] = H("session")
  /\ Parts[4] = H("space") /\ Parts[5] = H("eyes") /\ Parts[6] = Swap(0) /\ Parts[7] = H("gl")
<1> DEFINE S == HandleKinds \X Nat
           p1 == <<H("egl")>>
           p2 == p1 \o <<H("instance")>>
           p3 == p2 \o <<H("session"), H("space")>>
           p4 == p3 \o <<H("eyes")>>
           p5 == p4 \o <<Swap(0), H("gl")>>
<1>1. Parts = p5
  BY DEF Parts, create_instance, create_session, create_swapchains, create_cylinder_swapchain
<1>2. /\ H("egl") \in S /\ H("instance") \in S /\ H("session") \in S /\ H("space") \in S
      /\ H("eyes") \in S /\ Swap(0) \in S /\ H("gl") \in S
  BY DEF H, Swap, HandleKinds
<1> HIDE DEF S
<1>3. p1 \in Seq(S)
  BY <1>2
<1>4. Len(p1) = 1 /\ p1[1] = H("egl")
  OBVIOUS
<1> HIDE DEF p1
<1>5. /\ p2 \in Seq(S) /\ Len(p2) = Len(p1) + 1 /\ \A i \in 1..Len(p1) : p2[i] = p1[i]
      /\ p2[Len(p1) + 1] = H("instance")
  BY <1>2, <1>3, JoinOne
<1> HIDE DEF p2
<1>6. /\ p3 \in Seq(S) /\ Len(p3) = Len(p2) + 2 /\ \A i \in 1..Len(p2) : p3[i] = p2[i]
      /\ p3[Len(p2) + 1] = H("session") /\ p3[Len(p2) + 2] = H("space")
  <2>1. p2 \in Seq(S)
    BY <1>5
  <2> QED
    BY <1>2, <2>1, JoinTwo
<1> HIDE DEF p3
<1>7. /\ p4 \in Seq(S) /\ Len(p4) = Len(p3) + 1 /\ \A i \in 1..Len(p3) : p4[i] = p3[i]
      /\ p4[Len(p3) + 1] = H("eyes")
  <2>1. p3 \in Seq(S)
    BY <1>6
  <2> QED
    BY <1>2, <2>1, JoinOne
<1> HIDE DEF p4
<1>8. /\ Len(p5) = Len(p4) + 2 /\ \A i \in 1..Len(p4) : p5[i] = p4[i]
      /\ p5[Len(p4) + 1] = Swap(0) /\ p5[Len(p4) + 2] = H("gl")
  <2>1. p4 \in Seq(S)
    BY <1>7
  <2> QED
    BY <1>2, <2>1, JoinTwo
<1> HIDE DEF p5
<1>9. Len(p1) = 1 /\ Len(p2) = 2 /\ Len(p3) = 4 /\ Len(p4) = 5 /\ Len(p5) = 7
  BY <1>4, <1>5, <1>6, <1>7, <1>8
<1>10. p2[1] = H("egl") /\ p2[2] = H("instance")
  BY <1>4, <1>5, <1>9
<1>11. /\ p3[1] = H("egl") /\ p3[2] = H("instance") /\ p3[3] = H("session")
       /\ p3[4] = H("space")
  BY <1>6, <1>9, <1>10
<1>12. /\ \A i \in 1..4 : p4[i] = p3[i]
       /\ p4[5] = H("eyes")
  BY <1>7, <1>9
<1>13. /\ \A i \in 1..5 : p5[i] = p4[i]
       /\ p5[6] = Swap(0) /\ p5[7] = H("gl")
  BY <1>8, <1>9
<1> QED
  BY <1>1, <1>9, <1>11, <1>12, <1>13

\* What having a handle of this kind tells of the number n of parts made.
MadeBy(kind, n) ==
  /\ kind # "thread"
  /\ kind \in {"session", "space", "eyes", "swapchain"} => n >= 3
  /\ kind \in {"gl", "surface"} => n >= 1

\* create: whichever part fails, what was made before it is complete.
LEMMA CreateStep ==
  ASSUME HInv, create
  PROVE  HInv'
<1>1. Len(Parts) = 7
  BY PartsAre
<1>2. PICK n \in 0..7, ok \in BOOLEAN, overlay \in BOOLEAN, connects \in BOOLEAN :
        /\ held' = {Parts[i] : i \in 1..n}
                   \cup (IF n >= 6 THEN {Surface(0)} ELSE {})
                   \cup (IF n = 7 /\ overlay THEN {H("overlay")} ELSE {})
                   \cup (IF n = 7 /\ connects THEN {H("net")} ELSE {})
        /\ net' = IF n = 7 /\ connects THEN "connecting" ELSE "none"
        /\ pc' = IF n = 7 THEN "poll" ELSE "teardown"
  BY <1>1 DEF create, PrimaryAt, connect_from_config
<1>3. step' = 1
  BY DEF create, HInv
<1>4. /\ n >= 1 => H("egl") \in held'
      /\ n >= 2 => H("instance") \in held'
      /\ n >= 3 => H("session") \in held'
      /\ n = 7 /\ connects => H("net") \in held'
  <2>1. Parts[1] = H("egl") /\ Parts[2] = H("instance") /\ Parts[3] = H("session")
    BY PartsAre
  <2>2. \A i \in 1..n : Parts[i] \in held'
    BY <1>2
  <2> QED
    BY <1>2, <2>1, <2>2
<1>5. ASSUME NEW h \in held'
      PROVE  \E kind \in HandleKinds : h = <<kind, 0>> /\ MadeBy(kind, n)
  <2>1. CASE h \in {Parts[i] : i \in 1..n}
    <3>1. PICK i \in 1..n : h = Parts[i]
      BY <2>1
    <3>2. i = 1 \/ i = 2 \/ i = 3 \/ i = 4 \/ i = 5 \/ i = 6 \/ i = 7
      BY <1>2, <3>1
    <3>3. CASE i = 1
      BY PartsAre, <3>1, <3>3 DEF H, HandleKinds, MadeBy
    <3>4. CASE i = 2
      BY PartsAre, <3>1, <3>4 DEF H, HandleKinds, MadeBy
    <3>5. CASE i = 3
      BY PartsAre, <3>1, <3>5 DEF H, HandleKinds, MadeBy
    <3>6. CASE i = 4
      BY PartsAre, <3>1, <3>6 DEF H, HandleKinds, MadeBy
    <3>7. CASE i = 5
      BY PartsAre, <3>1, <3>7 DEF H, HandleKinds, MadeBy
    <3>8. CASE i = 6
      BY PartsAre, <3>1, <3>8 DEF Swap, HandleKinds, MadeBy
    <3>9. CASE i = 7
      BY PartsAre, <3>1, <3>9 DEF H, HandleKinds, MadeBy
    <3> QED
      BY <3>2, <3>3, <3>4, <3>5, <3>6, <3>7, <3>8, <3>9
  <2>2. CASE n >= 6 /\ h = Surface(0)
    BY <2>2 DEF Surface, HandleKinds, MadeBy
  <2>3. CASE h \in {H("overlay"), H("net")}
    BY <2>3 DEF H, HandleKinds, MadeBy
  <2> QED
    BY <1>2, <2>1, <2>2, <2>3
<1>6. NothingDangles'
  <2> SUFFICES ASSUME NEW h \in held', h[1] # "overlay" PROVE Needs(h) \subseteq held'
    BY DEF NothingDangles
  <2>1. PICK kind \in HandleKinds : h = <<kind, 0>> /\ MadeBy(kind, n)
    BY <1>5
  <2>2. kind # "overlay"
    BY <2>1
  <2> QED
    BY <1>2, <1>4, <2>1, <2>2, NeedsOf DEF HandleKinds, MadeBy
<1>7. held' \subseteq HandleKinds \X Nat
  <2>1. \A kind \in HandleKinds : <<kind, 0>> \in HandleKinds \X Nat
    OBVIOUS
  <2> QED
    BY <1>5, <2>1
<1>8. pc' = "poll" => /\ H("egl") \in held' /\ H("session") \in held'
                      /\ net' # "none" => H("net") \in held'
  BY <1>2, <1>4
<1> QED
  BY <1>2, <1>3, <1>6, <1>7, <1>8 DEF HInv, InLoop

\* start_decoder: every thread it starts has its surface and the session's receivers.
LEMMA StartStep ==
  ASSUME WInv, HInv, pc = "pump", net = "connecting",
         NEW k \in 0..Len(Extras), NEW up \in [1..k -> DOMAIN Extras], NEW made, NEW run,
         start_decoder(ExtraWindows(up, k), made, run),
         net' = "streaming", pc' = "render", UNCHANGED step
  PROVE  HInv'
<1> DEFINE ws == windows \o ExtraWindows(up, k)
           streams == {ws[i].stream : i \in DOMAIN ws}
<1>1. streams \subseteq Nat
  <2>1. ExtraWindows(up, k) \in Seq(WindowSet)
    <3>0. \A i \in 1..k : Extras[up[i]] \in Nat
      BY XrAssumption
    <3>1. \A i \in 1..k : Window(Extras[up[i]], TRUE) \in WindowSet
      BY <3>0, NewWindow
    <3> DEFINE extra == ExtraWindows(up, k)
    <3>2. extra = [i \in 1..k |-> extra[i]] /\ \A j \in 1..k : extra[j] = Window(Extras[up[j]], TRUE)
      BY DEF ExtraWindows
    <3>3. k \in Nat
      BY XrAssumption
    <3> HIDE DEF extra
    <3>4. \A i \in 1..k : extra[i] \in WindowSet
      BY <3>1, <3>2
    <3>5. extra \in Seq(WindowSet)
      BY <3>2, <3>3, <3>4, TableIsSeq
    <3> QED
      BY <3>5 DEF extra
  <2>2. ws \in Seq(WindowSet)
    BY <2>1, Joined DEF WInv
  <2> HIDE DEF ws
  <2>3. \A i \in DOMAIN ws : ws[i] \in WindowSet
    BY <2>2
  <2> QED
    BY <2>3 DEF WindowSet
<1>2. held' = held \cup {Swap(s) : s \in streams} \cup {Surface(s) : s \in streams}
                   \cup {Thread(s) : s \in streams \cap made \cap run}
  BY DEF start_decoder, create_cylinder_swapchain
<1> HIDE DEF streams
<1>3. H("egl") \in held /\ H("session") \in held /\ H("net") \in held /\ held \subseteq held'
  BY <1>2 DEF HInv, InLoop
<1>4. NothingDangles'
  <2> SUFFICES ASSUME NEW h \in held', h[1] # "overlay" PROVE Needs(h) \subseteq held'
    BY DEF NothingDangles
  <2>1. CASE h \in held
    BY <1>3, <2>1 DEF HInv, NothingDangles
  <2>2. ASSUME NEW s \in streams, h = Swap(s) PROVE Needs(h) \subseteq held'
    BY <1>1, <1>3, <2>2, NeedsOf DEF Swap, HandleKinds
  <2>3. ASSUME NEW s \in streams, h = Surface(s) PROVE Needs(h) \subseteq held'
    BY <1>1, <1>3, <2>3, NeedsOf DEF Surface, HandleKinds
  <2>4. ASSUME NEW s \in streams, h = Thread(s) PROVE Needs(h) \subseteq held'
    <3>1. Needs(h) = {H("net"), Surface(s)}
      BY <1>1, <2>4, NeedsOf DEF Thread, HandleKinds
    <3>2. Surface(s) \in held'
      BY <1>2
    <3> QED
      BY <1>3, <3>1, <3>2
  <2> QED
    BY <1>2, <2>1, <2>2, <2>3, <2>4
<1>5. held' \subseteq HandleKinds \X Nat
  <2>1. \A s \in streams : /\ Swap(s) \in HandleKinds \X Nat /\ Surface(s) \in HandleKinds \X Nat
                           /\ Thread(s) \in HandleKinds \X Nat
    BY <1>1 DEF Swap, Surface, Thread, HandleKinds
  <2> QED
    BY <1>2, <2>1 DEF HInv
<1> QED
  BY <1>3, <1>4, <1>5 DEF HInv, InLoop

LEMMA HandleStep ==
  ASSUME WInv, HInv, [XNext]_xvars
  PROVE  HInv'
<1> USE DEF android, runtime, scene
<1>1. ASSUME UNCHANGED <<held, net, step>>,
             pc' = pc \/ (InLoop /\ (InLoop' \/ pc' \in {"crashed", "teardown"}))
                     \/ (pc = "loader" /\ pc' \in {"create", "gone"})
      PROVE  HInv'
  <2>1. NothingDangles'
    BY <1>1 DEF HInv, NothingDangles
  <2>2. pc' = "teardown" => step' \in 1..11 /\ \A h \in held' : \A i \in 1..(step' - 1) : h[1] # Teardown[i]
    <3> HIDE DEF Teardown
    <3>1. CASE pc = "teardown"
      BY <1>1, <3>1 DEF HInv
    <3>2. CASE pc # "teardown" /\ pc' = "teardown"
      <4>1. step = 1 /\ 1..(step - 1) = {}
        BY <1>1, <3>2 DEF HInv, InLoop
      <4> QED
        BY <1>1, <4>1
    <3> QED
      BY <3>1, <3>2
  <2>3. InLoop' => /\ H("egl") \in held' /\ H("session") \in held' /\ step' = 1
                   /\ net' # "none" => H("net") \in held'
    BY <1>1 DEF HInv, InLoop
  <2>4. pc' \in {"loader", "create"} => held' = {} /\ net' = "none" /\ step' = 1
    BY <1>1 DEF HInv, InLoop
  <2> QED
    BY <1>1, <2>1, <2>2, <2>3, <2>4 DEF HInv
<1>2. ASSUME NEW ok \in BOOLEAN, init_loader(ok) PROVE HInv'
  BY <1>1, <1>2 DEF init_loader
<1>3. CASE create
  BY <1>3, CreateStep
<1>4. CASE Process \/ PollEnds \/ poll_events
  BY <1>1, <1>4 DEF Process, PollEnds, poll_events, InLoop
<1>5. CASE pump_network
  <2>1. CASE UNCHANGED net /\ Idle
    BY <1>1, <1>5, <2>1 DEF pump_network, Idle, InLoop
  <2>2. CASE ~(UNCHANGED net /\ Idle)
    <3>1. PICK k \in 0..Len(Extras), made \in SUBSET Served, run \in SUBSET Served :
            \E up \in [1..k -> DOMAIN Extras] : start_decoder(ExtraWindows(up, k), made, run)
      BY <1>5, <2>2 DEF pump_network
    <3>2. PICK up \in [1..k -> DOMAIN Extras] : start_decoder(ExtraWindows(up, k), made, run)
      BY <3>1
    <3>3. pc = "pump" /\ net = "connecting" /\ net' = "streaming" /\ pc' = "render" /\ UNCHANGED step
      BY <1>5, <2>2 DEF pump_network
    <3> QED
      BY <3>2, <3>3, StartStep
  <2> QED
    BY <2>1, <2>2
<1>6. CASE render_frame
  BY <1>1, <1>6 DEF render_frame, AfterFrame, InLoop
<1>7. CASE DestroyApp
  BY <1>7, TeardownStep
<1>8. ASSUME NEW c, AndroidSends(c) PROVE HInv'
  BY <1>1, <1>8 DEF AndroidSends
<1>9. ASSUME NEW to, RuntimeMoves(to) PROVE HInv'
  BY <1>1, <1>9 DEF RuntimeMoves
<1>10. ASSUME NEW k, CodecRenders(k) PROVE HInv'
  BY <1>1, <1>10 DEF CodecRenders
<1>11. CASE UNCHANGED xvars
  BY <1>1, <1>11 DEF xvars
<1> QED
  BY <1>2, <1>3, <1>4, <1>5, <1>6, <1>7, <1>8, <1>9, <1>10, <1>11 DEF XNext, MainStep

\* create, start_decoder and ~XrApp: no handle outlives what it needs, whatever part of
\* create fails, however many windows come up and whenever the loop is left; the decode
\* threads are gone before the receivers and the surfaces they use.
THEOREM XrNothingDangles == XSpec => []NothingDangles
<1>1. XInit => WInv /\ HInv
  BY DEF XInit, WInv, HInv, NothingDangles, InLoop
<1>2. WInv /\ HInv /\ [XNext]_xvars => WInv' /\ HInv'
  BY WStep, HandleStep
<1>3. HInv => NothingDangles
  BY DEF HInv
<1> QED
  BY <1>1, <1>2, <1>3, PTL DEF XSpec
=============================================================================

---------------------------- MODULE BrowserProofs ----------------------------
(***************************************************************************)
(* What the page shows when nothing is on its way to it, for every set of  *)
(* locations and options, any number of mounts, renderings and parts out   *)
(* together and any number of changes of the store.                        *)
(***************************************************************************)
EXTENDS Browser, TLAPS

-----------------------------------------------------------------------------
(***************************************************************************)
(* The inductive invariant.                                                *)
(***************************************************************************)
Content == [place : Views \cup {Nothing}, surface : Nat, read : Nat, error : BOOLEAN]

TypeOK ==
  /\ rev \in Nat /\ pending \in Nat /\ asked \in Nat /\ hashChanges \in {0, 1}
  /\ routeVersion \in Nat \ {0}
  /\ hash \in Places /\ currentPath \in Places
  /\ behind \in BOOLEAN /\ crossed \in BOOLEAN /\ failed \in BOOLEAN
  /\ shown \in Content /\ shown.surface <= routeVersion
  /\ shown.place # Nothing => shown.surface # 0
  /\ \A f \in flights :
       /\ f.kind \in {"route", "render", "part"}
       /\ f.surface \in Nat \ {0} /\ f.surface <= routeVersion
       /\ f.since \in Nat /\ f.since <= rev
       /\ f.kind = "part" => f.nth \in Nat \ {0}

\* A mount has its surface to itself until it is done; a rendering or a part
\* belongs to a surface that was shown.
SurfacesApart ==
  /\ \A f \in flights : f.kind = "route" =>
       /\ f.surface # shown.surface
       /\ \A g \in flights : g.surface = f.surface => g = f
       /\ f.surface = routeVersion => f.place = currentPath
  /\ \A f \in flights :
       /\ f.kind # "route" /\ f.surface = shown.surface => f.place = shown.place
       /\ f.kind # "route" => f.place # Nothing
       /\ f.kind = "part" => f.place \in PartViews

\* The page holds the last mount, or that mount is out.
Located ==
  /\ hashChanges = 0 => currentPath = hash
  /\ \/ shown.surface = routeVersion
     \/ \E f \in flights : f.kind = "route" /\ f.surface = routeVersion
  /\ \/ shown.place = currentPath
     \/ shown.place = Nothing /\ (shown.surface = 0 \/ shown.error)

\* What the last mount holds, or is still to be answered, is the store's
\* present, unless a signal is under way.
Fresh ==
  ~behind /\ currentPath \in RefreshViews /\ pending = 0 =>
    /\ \A f \in flights : f.kind # "part" /\ f.surface = routeVersion => f.since = rev
    /\ shown.surface = routeVersion /\ ~shown.error => shown.read = rev

\* An overview whose selection an overtaken one has taken over.
TakenOver == shown.place = "overview" /\ owner # shown.surface

\* An overview mounted again from its error card, and no wrapper chosen.
Unasked == shown.place = "overview" /\ asked = 0

ShownParts == {f \in flights : f.kind = "part" /\ f.surface = shown.surface}

ShownRenderings == {f \in flights : f.kind = "render" /\ f.surface = shown.surface}

\* A view without parts shows what it was last asked for, or its only rendering
\* out will.  One with parts renders only from its error card, before any
\* part was asked for; then the part asked for last is the one chosen.
Settled ==
  shown.place # Nothing /\ ~crossed =>
    /\ \A f, g \in ShownRenderings : f = g
    /\ \A f \in ShownRenderings : f.option = want
    /\ \A f \in ShownParts : f.nth <= asked
    /\ shown.place \notin PartViews => ShownRenderings # {} \/ got = want
    /\ shown.place \in PartViews /\ shown.error => asked = 0
    /\ shown.place \in PartViews /\ ~shown.error =>
         /\ ShownRenderings = {}
         /\ \/ got = want \/ failed \/ TakenOver \/ Unasked
            \/ \E f \in ShownParts : f.nth = asked
         /\ ~TakenOver => \A f \in ShownParts : f.nth = asked => f.option = want

\* The last mount of the incidents, and the page it becomes, is of the filter
\* chosen last, unless that was chosen late; every overview on the page is of
\* the wrapper selected last.
Chosen ==
  /\ \A f \in flights : f.kind = "route" /\ f.surface = routeVersion /\ f.place = "events" =>
       f.option = retainedStatus \/ late
  /\ shown.place = "events" /\ shown.surface = routeVersion => want = retainedStatus \/ late
  /\ shown.place = "overview" => want = selection

BrowserInv == TypeOK /\ SurfacesApart /\ Located /\ Fresh /\ Settled

-----------------------------------------------------------------------------
LEMMA Begins == Init => BrowserInv
  <1>1. SUFFICES ASSUME Init PROVE BrowserInv
    OBVIOUS
  <1>. DEFINE first == Flight("route", 1, 0, Default)
  <1>2. first.kind = "route" /\ first.surface = 1 /\ first.place = hash
        /\ first.option = Default /\ first.since = 1
    BY <1>1 DEF Init, Flight
  <1>3. flights = {first}
    BY <1>1 DEF Init
  <1>. HIDE DEF first
  <1>4. shown = Loading /\ Loading \in Content /\ Loading.place = Nothing
        /\ Loading.surface = 0 /\ Loading.error = FALSE
    BY <1>1 DEF Init, Loading, Content
  <1>5. TypeOK
    <2>1. /\ rev = 1 /\ pending = 0 /\ asked = 0 /\ hashChanges = 0 /\ routeVersion = 1
          /\ behind = FALSE /\ crossed = FALSE /\ failed = FALSE
          /\ hash \in Places /\ currentPath = hash
      BY <1>1 DEF Init
    <2>2. \A f \in flights :
            /\ f.kind \in {"route", "render", "part"}
            /\ f.surface \in Nat \ {0} /\ f.surface <= routeVersion
            /\ f.since \in Nat /\ f.since <= rev
            /\ f.kind = "part" => f.nth \in Nat \ {0}
      BY <2>1, <1>2, <1>3
    <2>3. shown \in Content /\ shown.surface <= routeVersion /\ shown.place = Nothing
      BY <2>1, <1>4
    <2>4. rev \in Nat /\ pending \in Nat /\ asked \in Nat
          /\ hashChanges \in {0, 1} /\ routeVersion \in Nat \ {0}
      BY <2>1
    <2>5. behind \in BOOLEAN /\ crossed \in BOOLEAN /\ failed \in BOOLEAN
      BY <2>1
    <2>. QED
      BY <2>1, <2>2, <2>3, <2>4, <2>5, Zenon DEF TypeOK
  <1>6. SurfacesApart
    BY <1>1, <1>2, <1>3, <1>4 DEF Init, SurfacesApart
  <1>7. Located /\ Fresh
    BY <1>1, <1>2, <1>3, <1>4 DEF Init, Located, Fresh
  <1>8. Settled
    BY <1>4 DEF Settled
  <1>. QED
    BY <1>5, <1>6, <1>7, <1>8 DEF BrowserInv

\* A flight belongs to the shown surface exactly when it is seen to.
LEMMA Seen ==
  ASSUME TypeOK, NEW f \in flights
  PROVE  IsShown(f) <=> f.surface = shown.surface
  <1>1. f.surface # 0
    BY DEF TypeOK
  <1>2. Loading.surface = 0
    BY DEF Loading
  <1>. QED
    BY <1>1, <1>2 DEF IsShown

-----------------------------------------------------------------------------
(***************************************************************************)
(* The server and the stream touch the clock of the store and the signals. *)
(***************************************************************************)
LEMMA ServerKeeps ==
  ASSUME BrowserInv,
         ScanBegins \/ ScanEnds \/ ChangesUnannounced \/ Disconnects \/ Reconnects
  PROVE  BrowserInv'
  <1>. DEFINE Told ==
         /\ UNCHANGED <<router, view, flights>>
         /\ behind' \in BOOLEAN /\ pending' \in Nat
         /\ rev' \in Nat /\ rev' >= rev
         /\ ~behind' /\ pending' = 0 => ~behind /\ pending = 0 /\ rev' = rev
  <1>1. Told
    <2>. USE DEF BrowserInv, TypeOK
    <2>1. ASSUME NEW n \in Nat, Changes(n) PROVE Told
      <3>1. /\ UNCHANGED <<router, view, flights>> /\ rev' = rev + 1
            /\ \/ pending' = pending + n /\ n > 0 /\ behind' = behind
               \/ pending' = pending /\ behind' = TRUE
        BY <2>1 DEF Changes
      <3>2. /\ behind' \in BOOLEAN /\ pending' \in Nat
            /\ ~behind' => ~behind /\ pending' = pending + n /\ n > 0
        <4>1. CASE pending' = pending + n /\ n > 0 /\ behind' = behind
          BY <4>1
        <4>2. CASE pending' = pending /\ behind' = TRUE
          BY <4>2
        <4>. QED
          BY <3>1, <4>1, <4>2, Zenon
      <3>3. rev' \in Nat /\ rev' >= rev
        BY <3>1
      <3>4. ~(~behind' /\ pending' = 0)
        BY <3>2
      <3>. QED
        BY <3>1, <3>2, <3>3, <3>4, Zenon
    <2>2. CASE ScanBegins \/ ChangesUnannounced
      BY <2>1, <2>2 DEF ScanBegins, ChangesUnannounced
    <2>3. CASE ScanEnds
      BY <2>1, <2>3, BurstAssumption DEF ScanEnds
    <2>4. CASE Disconnects
      <3>1. UNCHANGED <<rev, router, view, flights>> /\ pending' = 0
        BY <2>4 DEF Disconnects
      <3>2. behind' \in BOOLEAN /\ (~behind' => ~behind /\ ~(pending > 0))
        BY <2>4, Zenon DEF Disconnects
      <3>. QED
        BY <3>1, <3>2
    <2>5. CASE Reconnects
      BY <2>5 DEF Reconnects
    <2>. QED
      BY <2>2, <2>3, <2>4, <2>5
  <1>. USE <1>1 DEF router, view
  <1>2. TypeOK'
    BY DEF BrowserInv, TypeOK
  <1>3. SurfacesApart'
    BY DEF BrowserInv, SurfacesApart
  <1>4. Located'
    BY DEF BrowserInv, Located
  <1>5. Fresh'
    BY DEF BrowserInv, TypeOK, Fresh
  <1>6. Settled'
    BY DEF BrowserInv, Settled, ShownParts, ShownRenderings, TakenOver, Unasked
  <1>. QED
    BY <1>2, <1>3, <1>4, <1>5, <1>6 DEF BrowserInv

-----------------------------------------------------------------------------
(***************************************************************************)
(* A mount that begins has a surface nobody had, read at the present.      *)
(***************************************************************************)
LEMMA RouteKeeps ==
  ASSUME BrowserInv, Route,
         UNCHANGED rev, pending' \in Nat,
         hashChanges' \in {0, 1}
  PROVE  BrowserInv'
  <1>. DEFINE version == routeVersion + 1
              option  == IF hash = "events" THEN retainedStatus ELSE Default
              mount   == Flight("route", version, 0, option)
  <1>1. /\ mount.kind = "route" /\ mount.surface = version /\ mount.place = hash
        /\ mount.since = rev
    BY DEF Flight
  <1>2. flights' = flights \cup {mount} /\ routeVersion' = version
    BY DEF Route
  <1>3. /\ UNCHANGED <<hash, want, got, asked, owner, crossed, failed>>
        /\ currentPath' = hash /\ ~behind' /\ behind' \in BOOLEAN
        /\ shown' = Loading \/ (shown' = shown /\ hash = currentPath)
    BY DEF Route
  <1>4. Loading \in Content /\ Loading.place = Nothing
        /\ Loading.surface = 0 /\ Loading.error = FALSE
    BY DEF Loading, Content
  <1>5. version \in Nat \ {0} /\ routeVersion \in Nat /\ version > routeVersion
    BY DEF BrowserInv, TypeOK
  <1>. HIDE DEF mount, version
  <1>6. shown.surface \in Nat /\ shown'.surface # version
    BY <1>3, <1>4, <1>5 DEF BrowserInv, TypeOK, Content
  <1>7. \A f \in flights : f.surface # version
    BY <1>5 DEF BrowserInv, TypeOK
  <1>8. TypeOK'
    BY <1>1, <1>2, <1>3, <1>4, <1>5, <1>6 DEF BrowserInv, TypeOK
  <1>9. SurfacesApart'
    <2>1. ASSUME NEW f \in flights', f.kind = "route"
          PROVE  /\ f.surface # shown'.surface
                 /\ \A g \in flights' : g.surface = f.surface => g = f
                 /\ f.surface = version => f.place = currentPath'
      <3>1. f.surface # 0
        BY <2>1, <1>1, <1>2, <1>5 DEF BrowserInv, TypeOK
      <3>. QED
        BY <2>1, <3>1, <1>1, <1>2, <1>3, <1>4, <1>6, <1>7 DEF BrowserInv, SurfacesApart
    <2>2. ASSUME NEW f \in flights'
          PROVE  /\ f.kind # "route" /\ f.surface = shown'.surface => f.place = shown'.place
                 /\ f.kind # "route" => f.place # Nothing
                 /\ f.kind = "part" => f.place \in PartViews
      <3>1. f.surface # 0
        BY <1>1, <1>2, <1>5 DEF BrowserInv, TypeOK
      <3>. QED
        BY <3>1, <1>1, <1>2, <1>3, <1>4 DEF BrowserInv, SurfacesApart
    <2>. QED
      BY <2>1, <2>2, <1>2 DEF SurfacesApart
  <1>10. Located'
    BY <1>1, <1>2, <1>3, <1>4 DEF BrowserInv, Located
  <1>11. Fresh'
    BY <1>1, <1>2, <1>6, <1>7 DEF Fresh
  <1>12. Settled'
    <2>1. CASE shown' = Loading
      BY <2>1, <1>4 DEF Settled
    <2>2. CASE shown' = shown
      <3>1. ShownParts' = ShownParts /\ ShownRenderings' = ShownRenderings
        BY <2>2, <1>1, <1>2 DEF ShownParts, ShownRenderings
      <3>2. TakenOver' = TakenOver /\ Unasked' = Unasked
        BY <2>2, <1>3 DEF TakenOver, Unasked
      <3>. QED
        BY <2>2, <3>1, <3>2, <1>3 DEF BrowserInv, Settled
    <2>. QED
      BY <2>1, <2>2, <1>3
  <1>. QED
    BY <1>8, <1>9, <1>10, <1>11, <1>12 DEF BrowserInv

-----------------------------------------------------------------------------
(***************************************************************************)
(* The last mount is done: its surface holds no rendering and no part yet. *)
(***************************************************************************)
LEMMA LastMountKeeps ==
  ASSUME BrowserInv, NEW f \in flights, NEW read \in Reads(f), NEW error \in BOOLEAN,
         MountDone(f, read, error), Current(f)
  PROVE  BrowserInv'
  <1>. DEFINE content == [place |-> f.place, surface |-> f.surface,
                          read |-> read, error |-> error]
              option == IF f.place = "overview" THEN selection ELSE f.option
              journey == [kind |-> "part", surface |-> f.surface, nth |-> 1,
                          option |-> option, place |-> f.place, since |-> 0]
              asks == f.place = "overview" /\ ~error
              parts == IF asks THEN {journey} ELSE {}
  <1>1. /\ UNCHANGED <<rev, pending, hash, hashChanges, currentPath, routeVersion, behind>>
        /\ shown' = content /\ want' = option /\ ~crossed'
        /\ crossed' \in BOOLEAN /\ failed' \in BOOLEAN
        /\ f.kind = "route" /\ f.surface = routeVersion
    BY DEF MountDone, Current, server
  <1>2. flights' = (flights \ {f}) \cup parts
    BY DEF MountDone, Current
  <1>3. /\ asks => asked' = 1
        /\ ~asks => asked' = 0 /\ got' = option
    BY DEF MountDone, Current
  <1>4. f.place = currentPath
    BY <1>1 DEF BrowserInv, SurfacesApart
  <1>5. \A g \in parts :
          /\ g.kind = "part" /\ g.surface = f.surface /\ g.nth = 1
          /\ g.option = option /\ g.place = f.place /\ g.since = 0
          /\ g.place = "overview" /\ asks
    OBVIOUS
  <1>6. asks => \E g \in parts : g.nth = 1
    OBVIOUS
  <1>7. content.place = f.place /\ content.surface = f.surface
        /\ content.read = read /\ content.error = error
    OBVIOUS
  <1>8. read \in Nat
    BY DEF Reads, BrowserInv, TypeOK
  <1>9. f.place \in Views /\ f.place # Nothing /\ f.surface \in Nat \ {0}
    BY <1>4, PlacesAssumption, OptionsAssumption DEF BrowserInv, TypeOK
  <1>10. content \in Content
    BY <1>8, <1>9 DEF Content
  <1>11. \A g \in flights \ {f} : g.surface # f.surface
    BY <1>1 DEF BrowserInv, SurfacesApart
  <1>. HIDE DEF parts, content, option
  <1>12. TypeOK'
    <2>1. shown' \in Content /\ shown'.surface <= routeVersion' /\ shown'.surface # 0
      BY <1>1, <1>7, <1>9, <1>10 DEF BrowserInv, TypeOK
    <2>2. asked' \in Nat
      BY <1>3
    <2>3. \A g \in flights' :
            /\ g.kind \in {"route", "render", "part"}
            /\ g.surface \in Nat \ {0} /\ g.surface <= routeVersion'
            /\ g.since \in Nat /\ g.since <= rev'
            /\ g.kind = "part" => g.nth \in Nat \ {0}
      BY <1>1, <1>2, <1>5 DEF BrowserInv, TypeOK
    <2>4. rev' \in Nat /\ pending' \in Nat /\ hashChanges' \in {0, 1}
          /\ routeVersion' \in Nat \ {0} /\ hash' \in Places /\ currentPath' \in Places
          /\ behind' \in BOOLEAN /\ crossed' \in BOOLEAN /\ failed' \in BOOLEAN
      BY <1>1, Zenon DEF BrowserInv, TypeOK
    <2>. QED
      BY <2>1, <2>2, <2>3, <2>4, Zenon DEF TypeOK
  <1>13. SurfacesApart'
    BY <1>1, <1>2, <1>5, <1>7, <1>9, <1>11 DEF BrowserInv, SurfacesApart, PartViews
  <1>14. Located'
    BY <1>1, <1>4, <1>7 DEF BrowserInv, Located
  <1>15. Fresh'
    <2>1. ~behind /\ currentPath \in RefreshViews /\ pending = 0 => read = rev
      BY <1>1 DEF BrowserInv, TypeOK, Fresh, Reads
    <2>. QED
      BY <2>1, <1>1, <1>2, <1>5, <1>7 DEF BrowserInv, Fresh
  <1>16. Settled'
    <2>1. ShownRenderings' = {}
      BY <1>1, <1>2, <1>5, <1>7, <1>11 DEF ShownRenderings
    <2>2. ShownParts' = parts
      BY <1>1, <1>2, <1>5, <1>7, <1>11 DEF ShownParts
    <2>3. \A g \in parts : g.nth <= asked' /\ g.nth = asked' /\ g.option = want'
      BY <1>1, <1>3, <1>5
    <2>4. asks => \E g \in parts : g.nth = asked'
      BY <1>3, <1>6
    <2>5. ~asks => got' = want' /\ asked' = 0
      BY <1>1, <1>3
    <2>6. asks <=> shown'.place = "overview" /\ ~shown'.error
      BY <1>1, <1>7
    <2>. HIDE DEF asks
    <2>7. \A p : p \notin PartViews => p # "overview"
      BY DEF PartViews
    <2>. QED
      BY <2>1, <2>2, <2>3, <2>4, <2>5, <2>6, <2>7 DEF Settled
  <1>. QED
    BY <1>12, <1>13, <1>14, <1>15, <1>16 DEF BrowserInv

-----------------------------------------------------------------------------
(***************************************************************************)
(* An overtaken mount leaves the page alone, except that an overview takes *)
(* the selection over; so does one whose module does not load.             *)
(***************************************************************************)
LEMMA OvertakenMountKeeps ==
  ASSUME BrowserInv, NEW f \in flights,
         f.kind = "route", ~Current(f), flights' = flights \ {f},
         owner' = owner \/ owner' = f.surface,
         UNCHANGED <<server, router, shown, want, got, asked, crossed, failed, behind>>
  PROVE  BrowserInv'
  <1>. USE DEF server, router
  <1>1. f.surface # routeVersion /\ f.surface # shown.surface
    BY DEF BrowserInv, SurfacesApart, Current
  <1>2. TypeOK'
    BY DEF BrowserInv, TypeOK
  <1>3. SurfacesApart'
    BY DEF BrowserInv, SurfacesApart
  <1>4. Located'
    BY <1>1 DEF BrowserInv, Located
  <1>5. Fresh'
    BY DEF BrowserInv, Fresh
  <1>6. Settled'
    <2>1. ShownRenderings' = ShownRenderings /\ ShownParts' = ShownParts
      BY <1>1 DEF ShownRenderings, ShownParts
    <2>2. (TakenOver => TakenOver') /\ (Unasked => Unasked')
      BY <1>1 DEF TakenOver, Unasked
    <2>. QED
      BY <2>1, <2>2 DEF BrowserInv, Settled
  <1>. QED
    BY <1>2, <1>3, <1>4, <1>5, <1>6 DEF BrowserInv

LEMMA MountKeeps ==
  ASSUME BrowserInv, NEW f \in flights, NEW read \in Reads(f), NEW error \in BOOLEAN,
         MountDone(f, read, error)
  PROVE  BrowserInv'
  <1>1. CASE Current(f)
    BY <1>1, LastMountKeeps
  <1>2. CASE ~Current(f)
    <2>1. /\ f.kind = "route" /\ flights' = flights \ {f}
          /\ owner' = owner \/ owner' = f.surface
          /\ UNCHANGED <<server, router, shown, want, got, asked, crossed, failed, behind>>
      BY <1>2 DEF MountDone, router
    <2>. QED
      BY <1>2, <2>1, OvertakenMountKeeps
  <1>. QED
    BY <1>1, <1>2

LEMMA ImportKeeps ==
  ASSUME BrowserInv, NEW f \in flights, ImportFails(f)
  PROVE  BrowserInv'
  <1>1. CASE Current(f)
    <2>1. /\ f.kind = "route" /\ f.surface = routeVersion /\ flights' = flights \ {f}
          /\ UNCHANGED <<server, router, want, got, asked, owner, crossed, failed, behind>>
      BY <1>1 DEF ImportFails, Current
    <2>2. /\ shown' \in Content /\ shown'.place = Nothing /\ shown'.error
          /\ shown'.surface = routeVersion
      BY <1>1, <2>1 DEF ImportFails, Loading, Content, BrowserInv, TypeOK
    <2>. USE <2>1, <2>2 DEF server, router
    <2>3. TypeOK'
      BY DEF BrowserInv, TypeOK
    <2>4. SurfacesApart'
      BY <1>1 DEF BrowserInv, SurfacesApart
    <2>5. Located' /\ Fresh'
      BY DEF BrowserInv, Located, Fresh
    <2>6. Settled'
      BY DEF Settled
    <2>. QED
      BY <2>3, <2>4, <2>5, <2>6 DEF BrowserInv
  <1>2. CASE ~Current(f)
    <2>1. /\ f.kind = "route" /\ flights' = flights \ {f}
          /\ owner' = owner
          /\ UNCHANGED <<server, router, shown, want, got, asked, crossed, failed, behind>>
      BY <1>2 DEF ImportFails
    <2>. QED
      BY <1>2, <2>1, OvertakenMountKeeps
  <1>. QED
    BY <1>1, <1>2

-----------------------------------------------------------------------------
(***************************************************************************)
(* Answers to what a shown view asked for.                                 *)
(***************************************************************************)
LEMMA RenderKeeps ==
  ASSUME BrowserInv, NEW f \in flights, NEW read \in Reads(f), NEW error \in BOOLEAN,
         RenderDone(f, read, error)
  PROVE  BrowserInv'
  <1>1. /\ f.kind = "render" /\ flights' = flights \ {f}
        /\ owner' = owner \/ owner' = f.surface
        /\ UNCHANGED <<server, router, want, asked, crossed, failed, behind>>
    BY DEF RenderDone
  <1>. USE DEF server, router
  <1>2. CASE f.surface # shown.surface
    <2>1. UNCHANGED <<shown, got>>
      BY <1>2, Seen DEF RenderDone, BrowserInv
    <2>2. TypeOK'
      BY <1>1, <2>1 DEF BrowserInv, TypeOK
    <2>3. SurfacesApart'
      BY <1>1, <2>1 DEF BrowserInv, SurfacesApart
    <2>4. Located' /\ Fresh'
      BY <1>1, <2>1 DEF BrowserInv, Located, Fresh
    <2>5. ShownRenderings' = ShownRenderings /\ ShownParts' = ShownParts
      BY <1>1, <1>2, <2>1 DEF ShownRenderings, ShownParts
    <2>6. (TakenOver => TakenOver') /\ (Unasked => Unasked')
      BY <1>1, <1>2, <2>1 DEF TakenOver, Unasked
    <2>7. Settled'
      BY <1>1, <2>1, <2>5, <2>6 DEF BrowserInv, Settled
    <2>. QED
      BY <2>2, <2>3, <2>4, <2>7 DEF BrowserInv
  <1>3. CASE f.surface = shown.surface
    <2>1. /\ shown' = [shown EXCEPT !.read = read, !.error = error]
          /\ got' = IF f.place = "overview" THEN Nothing ELSE f.option
      BY <1>3, Seen DEF RenderDone, BrowserInv
    <2>2. read \in Nat
      BY DEF Reads, BrowserInv, TypeOK
    <2>3. /\ shown' \in Content /\ shown'.place = shown.place
          /\ shown'.surface = shown.surface
          /\ shown'.read = read /\ shown'.error = error
      BY <2>1, <2>2 DEF BrowserInv, TypeOK, Content
    <2>4. TypeOK'
      BY <1>1, <2>3 DEF BrowserInv, TypeOK
    <2>5. SurfacesApart'
      BY <1>1, <2>3 DEF BrowserInv, SurfacesApart
    <2>6. Located'
      <3>1. shown.place # Nothing
        BY <1>1, <1>3 DEF BrowserInv, SurfacesApart
      <3>. QED
        BY <1>1, <2>3, <3>1 DEF BrowserInv, Located
    <2>7. Fresh'
      <3>1. /\ ~behind /\ currentPath \in RefreshViews /\ pending = 0
            /\ f.surface = routeVersion
            => read = rev
        BY <1>1 DEF BrowserInv, TypeOK, Fresh, Reads
      <3>. QED
        BY <1>1, <1>3, <2>3, <3>1 DEF BrowserInv, Fresh
    <2>8. Settled'
      <3>1. SUFFICES ASSUME shown.place # Nothing, ~crossed PROVE Settled'
        BY <1>1, <2>3 DEF Settled
      <3>2. f \in ShownRenderings
        BY <1>1, <1>3 DEF ShownRenderings
      <3>3. ShownRenderings' = {}
        BY <1>1, <2>3, <3>1, <3>2 DEF BrowserInv, Settled, ShownRenderings
      <3>4. f.place = shown.place
        BY <1>1, <1>3 DEF BrowserInv, SurfacesApart
      <3>5. shown.place # "overview" => got' = want'
        BY <1>1, <2>1, <3>1, <3>2, <3>4 DEF BrowserInv, Settled
      <3>6. ShownParts' = ShownParts
        BY <1>1, <2>3 DEF ShownParts
      <3>7. ASSUME shown.place \in PartViews
            PROVE  asked = 0 /\ ShownParts = {}
        <4>1. asked = 0
          BY <3>1, <3>2, <3>7 DEF BrowserInv, Settled
        <4>2. \A g \in ShownParts : g.nth <= asked /\ g.nth \in Nat \ {0}
          BY <3>1 DEF BrowserInv, Settled, TypeOK, ShownParts
        <4>. QED
          BY <4>1, <4>2
      <3>8. \A g \in ShownParts : g.nth <= asked
        BY <3>1 DEF BrowserInv, Settled
      <3>9. (shown.place \notin PartViews => got' = want')
            /\ (shown.place \in PartViews => got' = want' \/ Unasked')
        BY <1>1, <2>3, <3>5, <3>7 DEF Unasked, PartViews
      <3>. QED
        BY <1>1, <2>3, <3>3, <3>6, <3>7, <3>8, <3>9, Zenon DEF Settled
    <2>. QED
      BY <2>4, <2>5, <2>6, <2>7, <2>8 DEF BrowserInv
  <1>. QED
    BY <1>2, <1>3

LEMMA PartKeeps ==
  ASSUME BrowserInv, NEW f \in flights, NEW error \in BOOLEAN, PartDone(f, error)
  PROVE  BrowserInv'
  <1>1. /\ f.kind = "part" /\ flights' = flights \ {f}
        /\ UNCHANGED <<server, router, shown, want, asked, owner, crossed, behind>>
    BY DEF PartDone
  <1>2. \/ /\ f.surface = shown.surface /\ f.nth = asked
           /\ got' = (IF error THEN got ELSE f.option) /\ failed' = error
        \/ ~(f.surface = shown.surface /\ f.nth = asked) /\ UNCHANGED <<got, failed>>
    BY Seen DEF PartDone, BrowserInv
  <1>. USE DEF server, router
  <1>3. TypeOK'
    <2>1. failed' \in BOOLEAN
      BY <1>2 DEF BrowserInv, TypeOK
    <2>. QED
      BY <1>1, <2>1 DEF BrowserInv, TypeOK
  <1>4. SurfacesApart'
    BY <1>1 DEF BrowserInv, SurfacesApart
  <1>5. Located' /\ Fresh'
    BY <1>1 DEF BrowserInv, Located, Fresh
  <1>6. Settled'
    <2>1. SUFFICES ASSUME shown.place # Nothing, ~crossed PROVE Settled'
      BY <1>1 DEF Settled
    <2>2. ShownRenderings' = ShownRenderings
      BY <1>1 DEF ShownRenderings
    <2>3. ShownParts' = ShownParts \ {f}
      BY <1>1 DEF ShownParts
    <2>4. f.surface = shown.surface => f \in ShownParts /\ shown.place \in PartViews
      BY <1>1 DEF ShownParts, BrowserInv, SurfacesApart
    <2>5. (TakenOver' <=> TakenOver) /\ (Unasked' <=> Unasked)
      BY <1>1 DEF TakenOver, Unasked
    <2>6. CASE ~(f.surface = shown.surface /\ f.nth = asked)
      <3>1. UNCHANGED <<got, failed>>
        BY <1>2, <2>6
      <3>2. (\E g \in ShownParts : g.nth = asked) => \E g \in ShownParts \ {f} : g.nth = asked
        BY <2>6 DEF ShownParts
      <3>. HIDE <2>6
      <3>. QED
        BY <1>1, <2>1, <2>2, <2>3, <2>5, <3>1, <3>2 DEF BrowserInv, Settled
    <2>7. CASE f.surface = shown.surface /\ f.nth = asked
      <3>1. got' = (IF error THEN got ELSE f.option) /\ failed' = error
        BY <1>2, <2>7
      <3>2. f.nth <= asked /\ f.nth \in Nat \ {0}
        BY <1>1, <2>1, <2>4, <2>7 DEF BrowserInv, Settled, TypeOK
      <3>3. ~shown.error
        BY <2>1, <2>4, <2>7, <3>2 DEF BrowserInv, Settled
      <3>4. TakenOver \/ f.option = want
        BY <2>1, <2>4, <2>7, <3>3 DEF BrowserInv, Settled
      <3>5. got' = want' \/ failed' \/ TakenOver'
        BY <1>1, <2>5, <3>1, <3>4
      <3>. QED
        BY <1>1, <2>1, <2>2, <2>3, <2>4, <2>5, <2>7, <3>3, <3>5 DEF BrowserInv, Settled
    <2>. QED
      BY <2>6, <2>7
  <1>. QED
    BY <1>3, <1>4, <1>5, <1>6 DEF BrowserInv

-----------------------------------------------------------------------------
(***************************************************************************)
(* The reader: a rendering into the shown surface is read at the present,  *)
(* and crosses any that is still out.                                      *)
(***************************************************************************)
LEMMA RendersKeeps ==
  ASSUME BrowserInv, NEW option, Renders(option), shown.place # Nothing,
         rev' \in Nat, rev' >= rev, rev' = rev \/ currentPath \notin RefreshViews,
         want' = option,
         shown.place \in PartViews => shown.error /\ UNCHANGED want,
         UNCHANGED <<pending, hash, hashChanges, currentPath, routeVersion, mounted,
                     shown, got, asked, owner, failed, behind>>
  PROVE  BrowserInv'
  <1>. DEFINE rendering == Flight("render", shown.surface, Cardinality(Renderings), option)
  <1>1. /\ rendering.kind = "render" /\ rendering.surface = shown.surface
        /\ rendering.option = option /\ rendering.place = shown.place
        /\ rendering.since = rev
    BY DEF Flight
  <1>2. flights' = flights \cup {rendering} /\ crossed' = (crossed \/ Renderings # {})
    BY DEF Renders
  <1>. HIDE DEF rendering
  <1>3. crossed' \in BOOLEAN /\ (~crossed' => ~crossed /\ Renderings = {})
    BY <1>2, Zenon DEF BrowserInv, TypeOK
  <1>4. Renderings = ShownRenderings
    BY Seen DEF Renderings, ShownRenderings, BrowserInv
  <1>5. shown.surface \in Nat \ {0}
    BY DEF BrowserInv, TypeOK, Content
  <1>6. TypeOK'
    <2>1. \A f \in flights' :
            /\ f.kind \in {"route", "render", "part"}
            /\ f.surface \in Nat \ {0} /\ f.surface <= routeVersion'
            /\ f.since \in Nat /\ f.since <= rev'
            /\ f.kind = "part" => f.nth \in Nat \ {0}
      BY <1>1, <1>2, <1>5 DEF BrowserInv, TypeOK
    <2>. QED
      BY <1>3, <2>1 DEF BrowserInv, TypeOK
  <1>7. SurfacesApart'
    BY <1>1, <1>2 DEF BrowserInv, SurfacesApart
  <1>8. Located'
    BY <1>2 DEF BrowserInv, Located
  <1>9. Fresh'
    BY <1>1, <1>2 DEF BrowserInv, Fresh
  <1>10. Settled'
    <2>1. SUFFICES ASSUME ~crossed, Renderings = {} PROVE Settled'
      BY <1>3 DEF Settled
    <2>2. ShownRenderings' = {rendering}
      BY <1>1, <1>2, <1>4, <2>1 DEF ShownRenderings
    <2>3. ShownParts' = ShownParts
      BY <1>1, <1>2 DEF ShownParts
    <2>4. shown'.place = shown.place /\ shown'.error = shown.error
      OBVIOUS
    <2>. QED
      BY <1>1, <2>1, <2>2, <2>3, <2>4 DEF BrowserInv, Settled
  <1>. QED
    BY <1>6, <1>7, <1>8, <1>9, <1>10 DEF BrowserInv

LEMMA ReaderRendersKeeps ==
  ASSUME BrowserInv,
         Retry \/ \E option \in Options : ChooseStatus(option) \/ SaveWatch(option)
  PROVE  BrowserInv'
  <1>1. CASE Retry
    <2>1. /\ Renders(want) /\ shown.error /\ shown.place # Nothing
          /\ UNCHANGED <<rev, pending, hash, hashChanges, currentPath, routeVersion, mounted,
                         shown, want, got, asked, owner, failed, behind>>
      BY <1>1 DEF Retry, server, router
    <2>2. rev' \in Nat /\ rev' >= rev
      BY <2>1 DEF BrowserInv, TypeOK
    <2>. QED
      BY <2>1, <2>2, RendersKeeps
  <1>2. ASSUME NEW option \in Options, ChooseStatus(option) PROVE BrowserInv'
    <2>1. /\ Renders(option) /\ want' = option /\ shown.place = "events"
          /\ UNCHANGED <<rev, pending, hash, hashChanges, currentPath, routeVersion, mounted,
                         shown, got, asked, owner, failed, behind>>
      BY <1>2 DEF ChooseStatus, server, router
    <2>2. shown.place # Nothing /\ shown.place \notin PartViews
      BY <2>1, OptionsAssumption DEF Views, PartViews
    <2>3. rev' \in Nat /\ rev' >= rev
      BY <2>1 DEF BrowserInv, TypeOK
    <2>. QED
      BY <2>1, <2>2, <2>3, RendersKeeps
  <1>3. ASSUME NEW option \in Options, SaveWatch(option) PROVE BrowserInv'
    <2>1. /\ Renders(option) /\ want' = option /\ shown.place = "watchlist" /\ rev' = rev + 1
          /\ UNCHANGED <<pending, hash, hashChanges, currentPath, routeVersion, mounted,
                         shown, got, asked, owner, failed, behind>>
      BY <1>3 DEF SaveWatch, router
    <2>2. shown.place # Nothing /\ shown.place \notin PartViews
      BY <2>1, OptionsAssumption DEF Views, PartViews
    <2>3. currentPath \notin RefreshViews
      BY <2>1, <2>2 DEF BrowserInv, Located, RefreshViews
    <2>4. rev' \in Nat /\ rev' >= rev
      BY <2>1 DEF BrowserInv, TypeOK
    <2>. QED
      BY <2>1, <2>2, <2>3, <2>4, RendersKeeps
  <1>. QED
    BY <1>1, <1>2, <1>3

\* A part is asked for under a number above every other part of its surface.
LEMMA ChoosePartKeeps ==
  ASSUME BrowserInv, NEW option \in Options, ChoosePart(option)
  PROVE  BrowserInv'
  <1>1. /\ shown.place \in PartViews /\ ~shown.error /\ want' = option
        /\ UNCHANGED <<server, router, shown, got, owner, crossed, behind>>
    BY DEF ChoosePart
  <1>. USE DEF server, router
  <1>2. shown.surface \in Nat \ {0} /\ shown.place # Nothing
    BY <1>1, OptionsAssumption DEF BrowserInv, TypeOK, Content, Views, PartViews
  <1>3. CASE TakenOver
    <2>1. UNCHANGED <<flights, asked, failed>>
      BY <1>3 DEF ChoosePart, TakenOver
    <2>2. TypeOK' /\ SurfacesApart' /\ Located' /\ Fresh'
      BY <1>1, <2>1 DEF BrowserInv, TypeOK, SurfacesApart, Located, Fresh
    <2>3. ShownRenderings' = ShownRenderings /\ ShownParts' = ShownParts /\ TakenOver'
      BY <1>1, <1>3, <2>1 DEF ShownRenderings, ShownParts, TakenOver
    <2>4. Settled'
      BY <1>1, <1>3, <2>1, <2>3 DEF BrowserInv, Settled
    <2>. QED
      BY <2>2, <2>4 DEF BrowserInv
  <1>4. CASE ~TakenOver
    <2>. DEFINE part == Flight("part", shown.surface, asked + 1, option)
    <2>1. /\ part.kind = "part" /\ part.surface = shown.surface
          /\ part.nth = asked + 1 /\ part.option = option /\ part.place = shown.place
          /\ part.since = 0
      BY DEF Flight
    <2>2. asked' = asked + 1 /\ failed' = FALSE /\ flights' = flights \cup {part}
      BY <1>4 DEF ChoosePart, TakenOver
    <2>. HIDE DEF part
    <2>3. TypeOK'
      <3>1. \A f \in flights' :
              /\ f.kind \in {"route", "render", "part"}
              /\ f.surface \in Nat \ {0} /\ f.surface <= routeVersion'
              /\ f.since \in Nat /\ f.since <= rev'
              /\ f.kind = "part" => f.nth \in Nat \ {0}
        BY <1>1, <1>2, <2>1, <2>2 DEF BrowserInv, TypeOK
      <3>2. failed' \in BOOLEAN
        BY <2>2
      <3>3. asked' \in Nat
        BY <2>2 DEF BrowserInv, TypeOK
      <3>. QED
        BY <1>1, <3>1, <3>2, <3>3 DEF BrowserInv, TypeOK
    <2>4. SurfacesApart'
      BY <1>1, <1>2, <2>1, <2>2 DEF BrowserInv, SurfacesApart
    <2>5. Located' /\ Fresh'
      BY <1>1, <2>1, <2>2 DEF BrowserInv, Located, Fresh
    <2>6. Settled'
      <3>1. ShownRenderings' = ShownRenderings
        BY <1>1, <2>1, <2>2 DEF ShownRenderings
      <3>2. ShownParts' = ShownParts \cup {part}
        BY <1>1, <2>1, <2>2 DEF ShownParts
      <3>3. SUFFICES ASSUME ~crossed PROVE Settled'
        BY <1>1 DEF Settled
      <3>4. \A f \in ShownParts : f.nth \in Nat /\ f.nth <= asked
        BY <1>2, <3>3 DEF BrowserInv, Settled, TypeOK, ShownParts
      <3>5. \A f \in ShownParts' :
              f.nth <= asked' /\ (f.nth = asked' => f.option = want')
        BY <1>1, <2>1, <2>2, <3>2, <3>4 DEF BrowserInv, TypeOK
      <3>6. \E f \in ShownParts' : f.nth = asked'
        BY <2>1, <2>2, <3>2
      <3>. QED
        BY <1>1, <1>2, <3>1, <3>3, <3>5, <3>6 DEF BrowserInv, Settled
    <2>. QED
      BY <2>3, <2>4, <2>5, <2>6 DEF BrowserInv
  <1>. QED
    BY <1>3, <1>4

LEMMA NavigateKeeps ==
  ASSUME BrowserInv, NEW place \in Places, Navigate(place)
  PROVE  BrowserInv'
  <1>1. /\ hash' = place /\ hashChanges' = hashChanges + 1 /\ hashChanges = 0
        /\ UNCHANGED <<server, currentPath, routeVersion, mounted, view, flights, behind>>
    BY DEF Navigate
  <1>. USE <1>1 DEF server, view
  <1>2. TypeOK' /\ SurfacesApart'
    BY DEF BrowserInv, TypeOK, SurfacesApart
  <1>3. Located' /\ Fresh'
    BY DEF BrowserInv, Located, Fresh
  <1>4. Settled'
    BY DEF BrowserInv, Settled, ShownParts, ShownRenderings, TakenOver, Unasked
  <1>. QED
    BY <1>2, <1>3, <1>4 DEF BrowserInv

LEMMA SignalKeeps ==
  ASSUME BrowserInv, SignalArrives
  PROVE  BrowserInv'
  <1>1. pending > 0 /\ pending' = pending - 1 /\ UNCHANGED <<rev, hashChanges>>
    BY DEF SignalArrives
  <1>2. CASE Route
    BY <1>1, <1>2, RouteKeeps DEF BrowserInv, TypeOK
  <1>3. CASE ~Route
    <2>1. /\ behind' = (behind \/ currentPath \in RefreshViews)
          /\ UNCHANGED <<hash, currentPath, routeVersion, mounted, kept,
                         view, flights>>
      BY <1>3 DEF SignalArrives
    <2>2. behind' \in BOOLEAN /\ (~behind' => ~behind /\ currentPath \notin RefreshViews)
      BY <2>1, Zenon DEF BrowserInv, TypeOK
    <2>3. pending' \in Nat
      BY <1>1 DEF BrowserInv, TypeOK
    <2>. USE <1>1, <2>1 DEF view
    <2>4. TypeOK' /\ SurfacesApart'
      BY <2>2, <2>3 DEF BrowserInv, TypeOK, SurfacesApart
    <2>5. Located' /\ Fresh'
      BY <2>2 DEF BrowserInv, Located, Fresh
    <2>6. Settled'
      BY DEF BrowserInv, Settled, ShownParts, ShownRenderings, TakenOver, Unasked
    <2>. QED
      BY <2>4, <2>5, <2>6 DEF BrowserInv
  <1>. QED
    BY <1>2, <1>3

-----------------------------------------------------------------------------
LEMMA StepKeeps == BrowserInv /\ [Next]_vars => BrowserInv'
  <1>1. SUFFICES ASSUME BrowserInv, [Next]_vars PROVE BrowserInv'
    OBVIOUS
  <1>2. CASE ScanBegins \/ ScanEnds \/ ChangesUnannounced \/ Disconnects \/ Reconnects
    BY <1>1, <1>2, ServerKeeps
  <1>3. CASE HashChange
    <2>1. Route /\ UNCHANGED <<rev, pending>> /\ hashChanges > 0 /\ hashChanges' = hashChanges - 1
      BY <1>3 DEF HashChange, server
    <2>2. pending' \in Nat /\ hashChanges' \in {0, 1}
      BY <1>1, <2>1 DEF BrowserInv, TypeOK
    <2>. QED
      BY <1>1, <2>1, <2>2, RouteKeeps
  <1>4. CASE SignalArrives
    BY <1>1, <1>4, SignalKeeps
  <1>5. CASE Poll
    <2>1. Route /\ UNCHANGED <<rev, pending, hashChanges>>
      BY <1>5 DEF Poll, server
    <2>2. pending' \in Nat /\ hashChanges' \in {0, 1}
      BY <1>1, <2>1 DEF BrowserInv, TypeOK
    <2>. QED
      BY <1>1, <2>1, <2>2, RouteKeeps
  <1>6. CASE Retry \/ \E option \in Options : ChooseStatus(option) \/ SaveWatch(option)
    BY <1>1, <1>6, ReaderRendersKeeps
  <1>7. CASE \E place \in Places : Navigate(place)
    BY <1>1, <1>7, NavigateKeeps
  <1>8. ASSUME NEW f \in flights, ImportFails(f) PROVE BrowserInv'
    BY <1>1, <1>8, ImportKeeps
  <1>9. ASSUME NEW f \in flights, NEW error \in BOOLEAN, NEW read \in Reads(f),
               MountDone(f, read, error)
        PROVE  BrowserInv'
    BY <1>1, <1>9, MountKeeps
  <1>10. ASSUME NEW f \in flights, NEW error \in BOOLEAN, NEW read \in Reads(f),
                RenderDone(f, read, error)
         PROVE  BrowserInv'
    BY <1>1, <1>10, RenderKeeps
  <1>11. ASSUME NEW f \in flights, NEW error \in BOOLEAN, PartDone(f, error)
         PROVE  BrowserInv'
    BY <1>1, <1>11, PartKeeps
  <1>12. ASSUME NEW option \in Options, ChoosePart(option) PROVE BrowserInv'
    BY <1>1, <1>12, ChoosePartKeeps
  <1>13. CASE UNCHANGED vars
    BY <1>1, <1>13 DEF vars, server, router, view, BrowserInv, TypeOK, SurfacesApart, Located,
       Fresh, Settled, ShownParts, ShownRenderings, TakenOver, Unasked
  <1>. QED
    BY <1>1, <1>2, <1>3, <1>4, <1>5, <1>6, <1>7, <1>8, <1>9, <1>10, <1>11, <1>12, <1>13
       DEF Next

-----------------------------------------------------------------------------
(***************************************************************************)
(* The reader's choice: every mount that begins is of the filter retained, *)
(* and a filter chosen while it is out is late.                            *)
(***************************************************************************)
LEMMA ChosenAtFirst == Init => Chosen
  BY OptionsAssumption DEF Init, Chosen, Flight, Loading, Views

LEMMA RouteKeepsChosen ==
  ASSUME BrowserInv, Chosen, Route
  PROVE  Chosen'
  <1>. DEFINE mount == Flight("route", routeVersion + 1, 0,
                              IF hash = "events" THEN retainedStatus ELSE Default)
  <1>1. mount.place = hash /\ (hash = "events" => mount.option = retainedStatus)
    BY DEF Flight
  <1>2. /\ flights' = flights \cup {mount} /\ routeVersion' = routeVersion + 1
        /\ UNCHANGED <<want, retainedStatus, selection>>
        /\ shown' = Loading \/ shown' = shown
    BY DEF Route
  <1>3. Loading.place = Nothing /\ Nothing \notin Views /\ {"events", "overview"} \subseteq Views
    BY OptionsAssumption DEF Loading, Views
  <1>4. routeVersion \in Nat /\ shown.surface <= routeVersion /\ shown.surface \in Nat
        /\ \A f \in flights : f.surface \in Nat /\ f.surface <= routeVersion
    BY DEF BrowserInv, TypeOK, Content
  <1>. HIDE DEF mount
  <1>. QED
    BY <1>1, <1>2, <1>3, <1>4 DEF Chosen

LEMMA MountKeepsChosen ==
  ASSUME BrowserInv, Chosen, NEW f \in flights, NEW read \in Reads(f), NEW error \in BOOLEAN,
         MountDone(f, read, error)
  PROVE  Chosen'
  <1>1. f.kind = "route" /\ UNCHANGED <<routeVersion, retainedStatus, selection, late>>
    BY DEF MountDone, kept
  <1>2. CASE Current(f)
    <2>1. /\ f.surface = routeVersion
          /\ shown'.place = f.place
          /\ want' = IF f.place = "overview" THEN selection ELSE f.option
      BY <1>2 DEF MountDone, Current
    <2>2. \A g \in flights' : g.kind = "route" => g \in flights
      BY <1>2 DEF MountDone
    <2>. QED
      BY <1>1, <2>1, <2>2 DEF Chosen
  <1>3. CASE ~Current(f)
    <2>1. flights' = flights \ {f} /\ UNCHANGED <<shown, want>>
      BY <1>3 DEF MountDone
    <2>. QED
      BY <1>1, <2>1 DEF Chosen
  <1>. QED
    BY <1>2, <1>3

LEMMA AnswersKeepChosen ==
  ASSUME BrowserInv, Chosen, NEW f \in flights, NEW error \in BOOLEAN,
         ImportFails(f) \/ PartDone(f, error) \/ \E read \in Reads(f) : RenderDone(f, read, error)
  PROVE  Chosen'
  <1>1. flights' = flights \ {f} /\ UNCHANGED <<routeVersion, retainedStatus, selection, late, want>>
    BY DEF ImportFails, PartDone, RenderDone, router, kept
  <1>2. \/ shown'.place = shown.place /\ shown'.surface = shown.surface
        \/ shown'.place = Nothing
    <2>1. CASE ImportFails(f)
      <3>1. shown' = [Loading EXCEPT !.surface = f.surface, !.error = TRUE] \/ shown' = shown
        BY <2>1 DEF ImportFails
      <3>. QED
        BY <3>1 DEF Loading
    <2>2. CASE PartDone(f, error)
      BY <2>2 DEF PartDone
    <2>3. ASSUME NEW read \in Reads(f), RenderDone(f, read, error)
          PROVE  shown'.place = shown.place /\ shown'.surface = shown.surface
      <3>1. shown' = [shown EXCEPT !.read = read, !.error = error] \/ shown' = shown
        BY <2>3 DEF RenderDone
      <3>2. shown \in Content
        BY DEF BrowserInv, TypeOK
      <3>. QED
        BY <3>1, <3>2 DEF Content
    <2>. QED
      BY <2>1, <2>2, <2>3
  <1>3. Nothing # "events" /\ Nothing # "overview"
    BY OptionsAssumption DEF Views
  <1>. QED
    BY <1>1, <1>2, <1>3 DEF Chosen

LEMMA ReaderKeepsChosen ==
  ASSUME BrowserInv, Chosen,
         Retry \/ \E option \in Options :
                    ChooseStatus(option) \/ SaveWatch(option) \/ ChoosePart(option)
  PROVE  Chosen'
  <1>1. /\ UNCHANGED <<routeVersion, shown>>
        /\ \A f \in flights' : f.kind = "route" => f \in flights
    BY DEF Retry, ChooseStatus, SaveWatch, ChoosePart, Renders, Flight, router
  <1>2. CASE Retry
    BY <1>1, <1>2 DEF Retry, kept, Chosen
  <1>3. ASSUME NEW option \in Options, ChooseStatus(option) PROVE Chosen'
    <2>1. /\ want' = option /\ retainedStatus' = option /\ late' = MountOut
          /\ shown.place = "events"
      BY <1>3 DEF ChooseStatus
    <2>2. \A f \in flights : f.kind = "route" /\ f.surface = routeVersion => MountOut
      BY DEF MountOut, Current
    <2>3. (\E f \in flights : f.kind = "route" /\ f.surface = routeVersion) => late'
      BY <2>1, <2>2, Zenon
    <2>. QED
      BY <1>1, <2>1, <2>3 DEF Chosen
  <1>4. ASSUME NEW option \in Options, SaveWatch(option) PROVE Chosen'
    BY <1>1, <1>4 DEF SaveWatch, kept, Chosen
  <1>5. ASSUME NEW option \in Options, ChoosePart(option) PROVE Chosen'
    <2>1. /\ want' = option /\ UNCHANGED <<retainedStatus, late>>
          /\ shown.place # "events"
          /\ shown.place = "overview" => selection' = option
      BY <1>5 DEF ChoosePart, PartViews
    <2>. QED
      BY <1>1, <2>1 DEF Chosen
  <1>. QED
    BY <1>2, <1>3, <1>4, <1>5

LEMMA ChosenKept == BrowserInv /\ Chosen /\ [Next]_vars => Chosen'
  <1>1. SUFFICES ASSUME BrowserInv, Chosen, [Next]_vars PROVE Chosen'
    OBVIOUS
  <1>2. CASE ScanBegins \/ ScanEnds \/ ChangesUnannounced \/ Disconnects \/ Reconnects
    <2>1. UNCHANGED <<router, view, kept, flights>>
      BY <1>2 DEF ScanBegins, ScanEnds, ChangesUnannounced, Changes, Disconnects, Reconnects
    <2>. QED
      BY <1>1, <2>1 DEF router, view, kept, Chosen
  <1>3. CASE HashChange \/ Poll
    BY <1>1, <1>3, RouteKeepsChosen DEF HashChange, Poll
  <1>4. CASE SignalArrives
    <2>1. CASE ~Route
      BY <1>1, <1>4, <2>1 DEF SignalArrives, view, kept, Chosen
    <2>. QED
      BY <1>1, <2>1, RouteKeepsChosen
  <1>5. CASE \E place \in Places : Navigate(place)
    BY <1>1, <1>5 DEF Navigate, view, kept, Chosen
  <1>6. ASSUME NEW f \in flights,
               \/ ImportFails(f)
               \/ \E error \in BOOLEAN :
                    \/ \E read \in Reads(f) : MountDone(f, read, error) \/ RenderDone(f, read, error)
                    \/ PartDone(f, error)
        PROVE  Chosen'
    BY <1>1, <1>6, MountKeepsChosen, AnswersKeepChosen
  <1>7. CASE Retry \/ \E option \in Options :
                        ChooseStatus(option) \/ SaveWatch(option) \/ ChoosePart(option)
    BY <1>1, <1>7, ReaderKeepsChosen
  <1>8. CASE UNCHANGED vars
    BY <1>1, <1>8 DEF vars, router, view, kept, Chosen
  <1>. QED
    BY <1>1, <1>2, <1>3, <1>4, <1>5, <1>6, <1>7, <1>8 DEF Next

LEMMA QuietIsCurrent == BrowserInv /\ Chosen => QuietMeansCurrent
  <1>1. SUFFICES ASSUME BrowserInv, Chosen, Quiet, ~shown.error
                 PROVE  /\ shown.place = hash /\ shown.surface = routeVersion
                        /\ shown.place \in RefreshViews /\ ~behind => shown.read = rev
                        /\ got = LastChosen \/ failed \/ crossed \/ late
                           \/ TakenOver \/ Unasked
    BY Zenon DEF QuietMeansCurrent, TakenOver, Unasked
  <1>2. shown.surface = routeVersion /\ currentPath = hash
    BY <1>1 DEF BrowserInv, Quiet, Located
  <1>3. shown.place = currentPath
    BY <1>1, <1>2 DEF BrowserInv, Located, TypeOK
  <1>4. shown.place \in RefreshViews /\ ~behind => shown.read = rev
    BY <1>1, <1>2, <1>3 DEF BrowserInv, Quiet, Fresh
  <1>5. shown.place # Nothing
    <2>1. currentPath \in Places
      BY <1>1 DEF BrowserInv, TypeOK
    <2>2. Places \subseteq Views /\ Nothing \notin Views
      BY PlacesAssumption, OptionsAssumption
    <2>. QED
      BY <1>3, <2>1, <2>2
  <1>6. ShownParts = {} /\ ShownRenderings = {}
    BY <1>1 DEF Quiet, ShownParts, ShownRenderings
  <1>7. got = want \/ failed \/ crossed \/ TakenOver \/ Unasked
    BY <1>1, <1>5, <1>6 DEF BrowserInv, Settled
  <1>8. want = LastChosen \/ late
    BY <1>1, <1>2 DEF Chosen, LastChosen
  <1>. QED
    BY <1>2, <1>3, <1>4, <1>7, <1>8

\* However late, reordered or overtaken the answers are, a page with nothing
\* on its way shows the location the reader went to as the last mount read it,
\* at the store's present unless a change went unsignalled or a reader was at
\* work, and with the filter, tab or wrapper chosen last but for the five
\* cases that QuietMeansCurrent names.
THEOREM PageIsCurrent == Spec => []QuietMeansCurrent
  <1>1. Init => BrowserInv /\ Chosen
    BY Begins, ChosenAtFirst
  <1>2. BrowserInv /\ Chosen /\ [Next]_vars => (BrowserInv /\ Chosen)'
    BY StepKeeps, ChosenKept
  <1>. QED
    BY <1>1, <1>2, QuietIsCurrent, PTL DEF Spec
=============================================================================

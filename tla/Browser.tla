------------------------------ MODULE Browser -------------------------------
(***************************************************************************)
(* The page of the observatory (apps/web/public/app.js and js/): a router  *)
(* that mounts a view for the location, live signals that mount it again,  *)
(* and views that ask for more, all over a network that may answer late,   *)
(* in another order or not at all.                                         *)
(*                                                                         *)
(* A handler of the API reads the store and nothing else, so an answer is  *)
(* represented by the revision of the store it was read at.  One flight    *)
(* stands for all requests of one mount, its read is the oldest of their   *)
(* revisions.  What a view looks like is left out.                         *)
(***************************************************************************)
EXTENDS Naturals, FiniteSets

CONSTANTS
  Places,     \* the locations visited; each is named after its view
  Options,    \* what a filter, a tab or an instrument can be set to
  Default,    \* the option a view starts with
  Nothing,    \* no content, no answer
  Burst,      \* bound: signals of one scan
  MaxRev,     \* bound: revisions of the store
  MaxVersion, \* bound: mounts by the router
  MaxFlights, \* bound: mounts, renderings and parts out together
  MaxAsks     \* bound: parts one shown view asks for

Views == {"overview", "radar", "events", "watchlist", "diagnostics",
          "asset", "event", "capsule"}

ASSUME PlacesAssumption == "overview" \in Places /\ Places \subseteq Views
ASSUME OptionsAssumption == Default \in Options /\ Nothing \notin Options \cup Views
ASSUME BurstAssumption == Burst \in Nat \ {0}

VARIABLES
  rev,          \* the revision of the store
  scanning,     \* a scan has begun and not ended
  pending,      \* signals on their way to this page
  connected,    \* the event stream is open
  hash,         \* location.hash
  hashChanges,  \* hashchange events not handled yet
  currentPath,  \* the location last routed to
  routeVersion,
  mounted,      \* some view has been put on the page
  retainedStatus, \* the filter a mount of the incidents starts with
  selection,    \* the wrapper the overviews of the page share
  shown,        \* what #view holds
  flights,      \* requests of mounts, renderings and parts of views
  want, got,    \* option of the shown view, option whose answer is on display
  asked,        \* parts asked for by the shown view
  owner,        \* the overview whose handler selection.onSelect is
  behind,       \* ghost: the store changed and no signal mounted the view since
  crossed,      \* ghost: two renderings of the shown view were out together
  late,         \* ghost: a filter was chosen when its view was being read again
  failed        \* ghost: the part last asked for was not answered

server == <<rev, scanning, pending, connected>>
router == <<hash, hashChanges, currentPath, routeVersion, mounted>>
view   == <<shown, want, got, asked, owner, crossed, failed>>
kept   == <<retainedStatus, selection, late>>
vars   == <<server, router, view, kept, flights, behind>>

-----------------------------------------------------------------------------
RefreshViews == {"overview", "radar", "events", "diagnostics"}
PolledViews  == {"overview", "radar"}

\* Views that render again into the surface they have: a filter, a save.
RenderingViews == {"events", "watchlist"}

\* Views with a part of their own requests: the history tabs of an asset and
\* the evidence journey of the overview.
PartViews == {"asset", "overview"}

\* What #view holds: a surface (named by the version that mounted it), the
\* revision it was read at, and whether it is an error card.
Loading == [place |-> Nothing, surface |-> 0, read |-> 0, error |-> FALSE]

IsShown(f) == f.surface = shown.surface /\ shown # Loading

Flight(kind, surface, nth, option) ==
  [kind |-> kind, surface |-> surface, nth |-> nth, option |-> option,
   place |-> IF kind = "route" THEN hash ELSE shown.place,
   since |-> IF kind = "part" THEN 0 ELSE rev]

-----------------------------------------------------------------------------
(***************************************************************************)
(* The server: the scan loop, other writers, and the signals.              *)
(***************************************************************************)

\* The store changes and n signals are written to the stream; without one
\* that arrives, what is shown falls behind.
Changes(n) ==
  /\ rev < MaxRev
  /\ rev' = rev + 1
  /\ IF connected /\ n > 0
     THEN pending' = pending + n /\ UNCHANGED behind
     ELSE behind' = TRUE /\ UNCHANGED pending
  /\ UNCHANGED <<connected, router, view, kept, flights>>

\* beginScan; scan_started is not one of the signals the page listens to.
ScanBegins == ~scanning /\ scanning' = TRUE /\ Changes(0)

\* After its last await a scan stores everything and only then gives way: a
\* signal per snapshot and event and scan_finished, or scan_finished alone.
ScanEnds ==
  /\ scanning
  /\ scanning' = FALSE
  /\ \E n \in {1, Burst} : Changes(n)

\* A delivered alert, a change of the watchlist, another process's scan.
ChangesUnannounced == UNCHANGED scanning /\ Changes(0)

\* The stream breaks and opens again; what was signalled in between, or was
\* on its way, is not sent again.
Disconnects ==
  /\ connected /\ connected' = FALSE
  /\ pending' = 0
  /\ behind' = (behind \/ pending > 0)
  /\ UNCHANGED <<rev, scanning, router, view, kept, flights>>

Reconnects ==
  /\ ~connected /\ connected' = TRUE
  /\ UNCHANGED <<rev, scanning, pending, router, view, kept, flights, behind>>

-----------------------------------------------------------------------------
(***************************************************************************)
(* The router.                                                             *)
(***************************************************************************)

\* route(): a new version, and its mount begins; the page says it is loading
\* unless the same location is only read again.
Route ==
  /\ routeVersion < MaxVersion /\ Cardinality(flights) < MaxFlights
  /\ routeVersion' = routeVersion + 1
  /\ currentPath' = hash
  /\ shown' = IF hash # currentPath \/ ~mounted THEN Loading ELSE shown
  /\ flights' = flights \cup {Flight("route", routeVersion + 1, 0,
                                     IF hash = "events" THEN retainedStatus ELSE Default)}
  /\ behind' = FALSE /\ late' = FALSE
  /\ UNCHANGED <<hash, mounted, retainedStatus, selection, want, got, asked, owner,
                 crossed, failed>>

Navigate(place) ==
  /\ place # hash /\ hashChanges = 0
  /\ hash' = place /\ hashChanges' = hashChanges + 1
  /\ UNCHANGED <<server, currentPath, routeVersion, mounted, view, kept, flights, behind>>

HashChange ==
  /\ hashChanges > 0 /\ hashChanges' = hashChanges - 1
  /\ Route /\ UNCHANGED server

\* A signal mounts the current view again unless it would disturb the reader:
\* whether isInteracting() then holds is up to focus and scrolling.
SignalArrives ==
  /\ pending > 0 /\ pending' = pending - 1
  /\ \/ currentPath \in RefreshViews /\ Route
     \/ /\ behind' = (behind \/ currentPath \in RefreshViews)
        /\ UNCHANGED <<hash, currentPath, routeVersion, mounted, view, kept, flights>>
  /\ UNCHANGED <<rev, scanning, connected, hashChanges>>

\* setInterval, every 30 s.
Poll ==
  /\ currentPath \in PolledViews
  /\ Route /\ UNCHANGED <<server, hashChanges>>

-----------------------------------------------------------------------------
(***************************************************************************)
(* Answers.                                                                *)
(***************************************************************************)

\* What an answer was read at: any revision since it was asked for.
Reads(f) == f.since .. rev

\* Mutant of Current: a mount goes on the page however late it is.
CurrentIfSamePlace(f) == f.place = hash

\* version === routeVersion.
Current(f) == f.surface = routeVersion

\* A mount is done, well or with an error card: it goes on the page unless a
\* later one was begun, with the filter it was begun with, whatever was chosen
\* since.  An overview takes selection.onSelect either way, and asks for the
\* journey of the wrapper selected by then once on the page.
MountDone(f, read, error) ==
  LET asks == Current(f) /\ f.place = "overview" /\ ~error
      option == IF f.place = "overview" THEN selection ELSE f.option
      rest == flights \ {f}
      content == [place |-> f.place, surface |-> f.surface,
                  read |-> read, error |-> error]
  IN
  /\ f.kind = "route"
  /\ owner' = IF f.place = "overview" /\ ~error THEN f.surface ELSE owner
  /\ IF Current(f)
     THEN /\ shown' = content
          /\ mounted' = TRUE
          /\ want' = option /\ crossed' = FALSE /\ failed' = FALSE
          /\ got' = IF asks THEN Nothing ELSE option
          /\ asked' = IF asks THEN 1 ELSE 0
          /\ flights' = IF asks
                        THEN rest \cup {[kind |-> "part", surface |-> f.surface, nth |-> 1,
                                         option |-> option, place |-> f.place, since |-> 0]}
                        ELSE rest
     ELSE flights' = rest /\ UNCHANGED <<shown, mounted, want, got, asked, crossed, failed>>
  /\ UNCHANGED <<server, hash, hashChanges, currentPath, routeVersion, kept, behind>>

\* The view's module does not load: told only if it is still the one wanted.
ImportFails(f) ==
  /\ f.kind = "route"
  /\ flights' = flights \ {f}
  /\ shown' = IF Current(f)
              THEN [Loading EXCEPT !.surface = f.surface, !.error = TRUE]
              ELSE shown
  /\ UNCHANGED <<server, router, want, got, asked, owner, crossed, failed, kept, behind>>

\* A rendering is done: it replaces what its own surface holds, whatever was
\* begun since.  An overview mounted again like this has a new handler and
\* says that its journey is loading, but nothing calls its __afterMount.
RenderDone(f, read, error) ==
  /\ f.kind = "render"
  /\ flights' = flights \ {f}
  /\ owner' = IF f.place = "overview" /\ ~error THEN f.surface ELSE owner
  /\ IF IsShown(f)
     THEN /\ shown' = [shown EXCEPT !.read = read, !.error = error]
          /\ got' = IF f.place = "overview" THEN Nothing ELSE f.option
     ELSE UNCHANGED <<shown, got>>
  /\ UNCHANGED <<server, router, want, asked, crossed, failed, kept, behind>>

\* A part is answered: shown when it is the last asked for and its surface
\* is still on the page.
PartDone(f, error) ==
  /\ f.kind = "part"
  /\ flights' = flights \ {f}
  /\ IF IsShown(f) /\ f.nth = asked
     THEN got' = (IF error THEN got ELSE f.option) /\ failed' = error
     ELSE UNCHANGED <<got, failed>>
  /\ UNCHANGED <<server, router, shown, want, asked, owner, crossed, kept, behind>>

-----------------------------------------------------------------------------
(***************************************************************************)
(* The reader.                                                             *)
(***************************************************************************)
Renderings == {f \in flights : f.kind = "render" /\ IsShown(f)}

Renders(option) ==
  /\ Cardinality(flights) < MaxFlights
  /\ flights' = flights \cup {Flight("render", shown.surface, Cardinality(Renderings), option)}
  /\ crossed' = (crossed \/ Renderings # {})

\* The button of a view's error card.
Retry ==
  /\ shown.error /\ shown.place # Nothing
  /\ Renders(want)
  /\ UNCHANGED <<server, router, shown, want, got, asked, owner, failed, kept, behind>>

\* The last mount begun is still to be answered.
MountOut == \E f \in flights : f.kind = "route" /\ Current(f)

\* The status filter of the incidents.
ChooseStatus(option) ==
  /\ shown.place = "events" /\ ~shown.error
  /\ option # want /\ want' = option /\ retainedStatus' = option
  /\ late' = MountOut
  /\ Renders(option)
  /\ UNCHANGED <<server, router, shown, got, asked, owner, failed, selection, behind>>

\* An entry is saved or removed on the watchlist page, which then renders.
SaveWatch(option) ==
  /\ shown.place = "watchlist" /\ ~shown.error
  /\ rev < MaxRev /\ rev' = rev + 1
  /\ want' = option
  /\ Renders(option)
  /\ UNCHANGED <<scanning, pending, connected, router, shown, got, asked, owner, failed,
                 kept, behind>>

\* A history tab, or a wrapper of the instrument, which later overviews start
\* with.  The handler of another overview asks on behalf of a surface that is
\* not on the page.
ChoosePart(option) ==
  /\ shown.place \in PartViews /\ ~shown.error
  /\ option # want /\ want' = option
  /\ selection' = IF shown.place = "overview" THEN option ELSE selection
  /\ asked < MaxAsks /\ Cardinality(flights) < MaxFlights
  /\ IF shown.place = "overview" /\ owner # shown.surface
     THEN UNCHANGED <<flights, asked, failed>>
     ELSE /\ asked' = asked + 1 /\ failed' = FALSE
          /\ flights' = flights \cup {Flight("part", shown.surface, asked + 1, option)}
  /\ UNCHANGED <<server, router, shown, got, owner, crossed, retainedStatus, late, behind>>

-----------------------------------------------------------------------------
\* Boot: the location is the overview's unless the link names another.
Init ==
  /\ rev = 1 /\ scanning = FALSE /\ pending = 0 /\ connected = TRUE
  /\ hash \in Places /\ hashChanges = 0 /\ currentPath = hash
  /\ routeVersion = 1 /\ mounted = FALSE /\ shown = Loading
  /\ flights = {Flight("route", 1, 0, Default)}
  /\ retainedStatus = Default /\ selection = Default
  /\ want = Default /\ got = Default /\ asked = 0 /\ owner = 0
  /\ behind = FALSE /\ crossed = FALSE /\ late = FALSE /\ failed = FALSE

Next ==
  \/ ScanBegins \/ ScanEnds \/ ChangesUnannounced \/ Disconnects \/ Reconnects
  \/ HashChange \/ SignalArrives \/ Poll \/ Retry
  \/ \E place \in Places : Navigate(place)
  \/ \E f \in flights :
       \/ ImportFails(f)
       \/ \E error \in BOOLEAN :
            \/ \E read \in Reads(f) : MountDone(f, read, error) \/ RenderDone(f, read, error)
            \/ PartDone(f, error)
  \/ \E option \in Options : ChooseStatus(option) \/ SaveWatch(option) \/ ChoosePart(option)

Spec == Init /\ [][Next]_vars

-----------------------------------------------------------------------------
\* Nothing is on its way to the page.
Quiet == flights = {} /\ pending = 0 /\ hashChanges = 0

\* What the reader chose last.  The incidents and the overview are mounted
\* again by signals, which the reader's choice outlives; a mount of any other
\* view is one the reader asked for, and starts afresh.
LastChosen == CASE shown.place = "events"   -> retainedStatus
                [] shown.place = "overview" -> selection
                [] OTHER                    -> want

\* When nothing is on its way any more, the page shows what the reader went
\* to and not a mount that was overtaken; a view that follows the store shows
\* its present, unless a change was not signalled or a reader was at work;
\* and it shows what the reader chose last.  Of that the code keeps no more
\* than this: it may show another choice if the answer failed, if two
\* renderings crossed, if a filter was chosen when a signal was reading the
\* incidents again, if an overtaken overview took the selection over, and if
\* an overview was mounted again from its error card and no wrapper chosen.
QuietMeansCurrent ==
  Quiet /\ ~shown.error =>
    /\ shown.place = hash /\ shown.surface = routeVersion
    /\ shown.place \in RefreshViews /\ ~behind => shown.read = rev
    /\ \/ got = LastChosen
       \/ failed \/ crossed \/ late
       \/ shown.place = "overview" /\ (owner # shown.surface \/ asked = 0)
=============================================================================

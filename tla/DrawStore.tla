------------------------------ MODULE DrawStore ------------------------------
(***************************************************************************)
(* The store of drawables of the overlay binary: the std::map allDraws of  *)
(* main(), filled by the network thread (TcpSession::process_payload) and  *)
(* drawn, aged and purged by the main loop every 100 ms.  The two threads  *)
(* meet at the mutex of OutputContext.                                     *)
(*                                                                         *)
(* A key of the map is a natural number, in the order std::map gives the   *)
(* strings; what isEqualStoredData compares of an item is one value, its   *)
(* content.  A message without an id takes the next of AutoKeys, which are *)
(* in the order the counter generates them and not in the order of the     *)
(* map: "AUTOID:10" comes before "AUTOID:9".                               *)
(***************************************************************************)
EXTENDS Integers, Sequences

CONSTANTS
    Ids,            \* keys a plugin may name in a message
    AutoKeys,       \* sequence of the keys the AUTOID counter generates
    Contents,       \* the stored data of an item that draws something
    Blank,          \* the stored data of a pure command: drawmode_t::idk
    Unbuildable,    \* the contents BuildSvgTask throws on
    Banner,         \* the text showVersionString leaves on the screen
    Malformed,      \* an element of a payload the JSON parser throws on
    Payloads,       \* the bodies plugins send: sequences of messages
    AnonymousTtl,   \* ttl given to a message without id that has none
    CheckPeriod,    \* kAppActivityCheck
    HasTarget,      \* a binary name was given on the command line
    Paced,          \* plugins wait for a frame between two payloads
    MaxNow          \* bound: the last instant at which items are created

Keys == Ids \cup {AutoKeys[i] : i \in 1..Len(AutoKeys)}
NoId == 0           \* no "id" in the message
NoCommand == ""     \* no "command" in the message
Commands == {"exit", "overlay_on", "overlay_off", "unknown"}
Toggles == {"overlay_on", "overlay_off"}

Message == [id : Ids \cup {NoId}, content : Contents \cup {Blank},
            command : Commands \cup {NoCommand}, ttl : Int]

ASSUME StoreAssumption ==
    /\ Ids \subseteq Nat \ {0}
    /\ AutoKeys \in Seq(Nat \ {0})
    /\ Blank \notin Contents
    /\ Banner \notin Contents \cup {Blank}
    /\ Unbuildable \subseteq Contents
    /\ Payloads \subseteq Seq(Message \cup {Malformed})
    /\ Malformed \notin Message
    /\ AnonymousTtl \in Nat
    /\ CheckPeriod \in Nat
    /\ HasTarget \in BOOLEAN
    /\ Paced \in BOOLEAN
    /\ MaxNow \in Nat

VARIABLES
    allDraws,         \* the shared map
    incoming,         \* incoming_draws, local to process_payload
    todo,             \* the elements of the payload that are not parsed yet
    iter,             \* the iterator of removeRenamedDuplicates
    ioPc,             \* where the network thread is
    autoNext,         \* the counter of anonymous messages, from 1
    mutex,            \* the holder of OutputContext's mutex
    shouldStop,       \* the stop flag of the runner
    mainPc,           \* where the main thread is
    now,              \* steady_clock
    lastCheckTime,    \* of the focus check
    targetAppActive,
    commandHideLayer,
    windowWasHidden,
    screen,           \* the contents on the X window
    unframed,         \* history: a payload was published after the last frame
    lastToggle        \* history: the last overlay_on/overlay_off received

ioVars == <<incoming, todo, iter, ioPc, autoNext>>
mainVars == <<mainPc, lastCheckTime, targetAppActive, commandHideLayer,
              windowWasHidden, screen>>
vars == <<allDraws, ioVars, mutex, shouldStop, mainVars, now, unframed,
          lastToggle>>

Item == [content : Contents \cup {Blank}, command : Commands \cup {NoCommand},
         ttl : Int, created : Nat, rendered : BOOLEAN]
IsMap(m) == DOMAIN m \subseteq Keys /\ m \in [DOMAIN m -> Item]
EmptyMap == [k \in {} |-> 0]

isCommand(item) == item.command # NoCommand
isExpired(item) == item.ttl >= 0 /\ now > item.created + item.ttl
Without(map, S) == [k \in DOMAIN map \ S |-> map[k]]
ContentsOf(map) == {map[k].content : k \in DOMAIN map}
Least(S) == CHOOSE k \in S : \A j \in S : k <= j
Alive == ioPc # "crashed"

Init ==
    /\ allDraws = EmptyMap /\ incoming = EmptyMap /\ todo = <<>> /\ iter = NoId
    /\ ioPc = "read" /\ autoNext = 1
    /\ mutex = "free" /\ shouldStop = FALSE
    /\ mainPc = "sleep" /\ now = CheckPeriod /\ lastCheckTime = 0
    /\ targetAppActive = FALSE /\ commandHideLayer = FALSE
    /\ windowWasHidden = FALSE /\ screen = {Banner}
    /\ unframed = FALSE /\ lastToggle = "overlay_on"

-----------------------------------------------------------------------------
(* The network thread: one io_context thread serves every connection.      *)

\* readBody hands a whole body to process_payload.  The guards bound the run:
\* the clock and the AUTOID counter stay within MaxNow and AutoKeys.
Receive(payload) ==
    /\ ioPc = "read"
    /\ Paced => ~unframed
    /\ now + Len(payload) <= MaxNow
    /\ autoNext + Len(payload) <= Len(AutoKeys) + 1
    /\ todo' = payload
    /\ ioPc' = "parse"
    /\ UNCHANGED <<allDraws, incoming, iter, autoNext, mutex, shouldStop,
                   mainVars, now, unframed, lastToggle>>

\* Mutant: the ttl of an anonymous message is left alone.
NewItem_Immortal(m) ==
    [content |-> m.content, command |-> m.command, ttl |-> m.ttl,
     created |-> now, rendered |-> FALSE]

\* What parseSingleObject stores for a message: an anonymous one may not stay
\* for ever.  Every drawitem_t reads the clock when it is constructed.
NewItem(m) ==
    [content |-> m.content, command |-> m.command,
     ttl |-> IF m.id = NoId /\ m.ttl < 0 THEN AnonymousTtl ELSE m.ttl,
     created |-> now, rendered |-> FALSE]

\* An element of the payload that draws something or is a command.  A later
\* element with the same id replaces an earlier one.
ParseItem ==
    /\ ioPc = "parse" /\ todo # <<>> /\ Head(todo) # Malformed
    /\ LET m == Head(todo)
           key == IF m.id = NoId THEN AutoKeys[autoNext] ELSE m.id
       IN \/ /\ m.content # Blank \/ m.command # NoCommand
             /\ incoming' = [k \in DOMAIN incoming \cup {key} |->
                               IF k = key THEN NewItem(m) ELSE incoming[k]]
             /\ autoNext' = IF m.id = NoId THEN autoNext + 1 ELSE autoNext
          \/ /\ m.content = Blank /\ m.command = NoCommand
             /\ UNCHANGED <<incoming, autoNext>>
    /\ todo' = Tail(todo)
    /\ now' = now + 1
    /\ UNCHANGED <<allDraws, iter, ioPc, mutex, shouldStop, mainVars, unframed,
                   lastToggle>>

\* The parser throws: the whole payload is dropped.
ParseFails ==
    /\ ioPc = "parse" /\ todo # <<>> /\ Head(todo) = Malformed
    /\ incoming' = EmptyMap /\ todo' = <<>>
    /\ ioPc' = "read"
    /\ UNCHANGED <<allDraws, iter, autoNext, mutex, shouldStop, mainVars, now,
                   unframed, lastToggle>>

\* All elements parsed.  Nothing to draw, or the stop flag is up: back to the
\* next header, and the payload is forgotten.
DropPayload ==
    /\ ioPc = "parse" /\ todo = <<>>
    /\ ContentsOf(incoming) \cap Unbuildable = {}
    /\ DOMAIN incoming = {} \/ shouldStop
    /\ incoming' = EmptyMap
    /\ ioPc' = "read"
    /\ UNCHANGED <<allDraws, todo, iter, autoNext, mutex, shouldStop, mainVars,
                   now, unframed, lastToggle>>

\* The items become SVG and the flag allows to go on: next is the mutex.
GoMerge ==
    /\ ioPc = "parse" /\ todo = <<>>
    /\ DOMAIN incoming # {} /\ ContentsOf(incoming) \cap Unbuildable = {}
    /\ ~shouldStop
    /\ ioPc' = "lock"
    /\ UNCHANGED <<allDraws, incoming, todo, iter, autoNext, mutex, shouldStop,
                   mainVars, now, unframed, lastToggle>>

\* BuildSvgTask throws outside of any try: the exception leaves
\* io_context.run() on its thread and std::terminate ends the process.
BuildThrows ==
    /\ ioPc = "parse" /\ todo = <<>>
    /\ ContentsOf(incoming) \cap Unbuildable # {}
    /\ ioPc' = "crashed"
    /\ UNCHANGED <<allDraws, incoming, todo, iter, autoNext, mutex, shouldStop,
                   mainVars, now, unframed, lastToggle>>

\* incoming.merge(allDraws): the keys of both stay incoming's.  An item that
\* replaces one with equal stored data is marked as rendered, unless the stop
\* flag ends that loop at once.
Merged ==
    [k \in DOMAIN incoming \cup DOMAIN allDraws |->
       IF k \notin DOMAIN incoming THEN allDraws[k]
       ELSE IF k \in DOMAIN allDraws /\ ~shouldStop
               /\ allDraws[k].content = incoming[k].content
       THEN [incoming[k] EXCEPT !.rendered = TRUE]
       ELSE incoming[k]]

NewToggles == {k \in DOMAIN incoming : incoming[k].command \in Toggles}

Merge ==
    /\ ioPc = "lock" /\ mutex = "free"
    /\ mutex' = "io"
    /\ incoming' = Merged
    /\ allDraws' = EmptyMap
    /\ iter' = Least(DOMAIN Merged)
    /\ ioPc' = "dedup"
    /\ \/ NewToggles = {} /\ UNCHANGED lastToggle
       \/ \E k \in NewToggles :
            /\ \A j \in NewToggles : incoming[j].created <= incoming[k].created
            /\ lastToggle' = incoming[k].command
    /\ UNCHANGED <<todo, autoNext, shouldStop, mainVars, now, unframed>>

(* removeRenamedDuplicates, one iteration of its loop per step.            *)

After(k, map) == {j \in DOMAIN map : k < j}

\* Mutants: isEqualStoredData compares already_rendered, or the command, too.
Twins_Rendered ==
    {j \in After(iter, incoming) : /\ incoming[j].content = incoming[iter].content
                                   /\ incoming[j].rendered = incoming[iter].rendered}
Twins_Command ==
    {j \in After(iter, incoming) : /\ incoming[j].content = incoming[iter].content
                                   /\ incoming[j].command = incoming[iter].command}

Twins == {j \in After(iter, incoming) : incoming[j].content = incoming[iter].content}

\* Mutant: the older of the two stays.
IterIsOlder_Swapped(dup) == incoming[iter].created > incoming[dup].created

IterIsOlder(dup) == incoming[iter].created < incoming[dup].created

\* Nothing equal further on.
DedupAdvance ==
    /\ ioPc = "dedup" /\ After(iter, incoming) # {} /\ Twins = {}
    /\ iter' = Least(After(iter, incoming))
    /\ UNCHANGED <<allDraws, incoming, todo, ioPc, autoNext, mutex, shouldStop,
                   mainVars, now, unframed, lastToggle>>

\* Of two equal items one stays and is marked as rendered if either was.
KeepOnly(stays, gone) ==
    Without([incoming EXCEPT ![stays].rendered =
               incoming[stays].rendered \/ incoming[gone].rendered], {gone})

\* A newer equal item further on: the one at iter goes, iter moves on.
DedupEraseHere ==
    /\ ioPc = "dedup" /\ Twins # {} /\ IterIsOlder(Least(Twins))
    /\ incoming' = KeepOnly(Least(Twins), iter)
    /\ iter' = Least(After(iter, incoming))
    /\ UNCHANGED <<allDraws, todo, ioPc, autoNext, mutex, shouldStop, mainVars,
                   now, unframed, lastToggle>>

\* The last element, or the last but one.
AtTheEnd(map) == {k \in DOMAIN map : \A i, j \in After(k, map) : i = j}

\* The equal item further on is older: it goes and iter moves on.  When it was
\* the last one, iter becomes end(), which the loop condition does not stop:
\* *end() and std::next(end()) are undefined.  The build dies on the garbage it
\* reads, or the red-black tree leads back to one of its last two nodes.
DedupEraseDup ==
    /\ ioPc = "dedup" /\ Twins # {} /\ ~IterIsOlder(Least(Twins))
    /\ incoming' = KeepOnly(iter, Least(Twins))
    /\ LET left == After(iter, KeepOnly(iter, Least(Twins)))
       IN \/ left # {} /\ iter' = Least(left) /\ UNCHANGED ioPc
          \/ /\ left = {} /\ iter' \in AtTheEnd(KeepOnly(iter, Least(Twins)))
             /\ ioPc' \in {"dedup", "crashed"}
    /\ UNCHANGED <<allDraws, todo, autoNext, mutex, shouldStop, mainVars, now,
                   unframed, lastToggle>>

\* iter is the last element: swap and unlock.
Publish ==
    /\ ioPc = "dedup" /\ After(iter, incoming) = {}
    /\ allDraws' = incoming
    /\ incoming' = EmptyMap
    /\ iter' = NoId
    /\ mutex' = "free"
    /\ ioPc' = "read"
    /\ unframed' = TRUE
    /\ UNCHANGED <<todo, autoNext, shouldStop, mainVars, now, lastToggle>>

Network ==
    \/ ParseItem \/ ParseFails \/ DropPayload \/ GoMerge \/ BuildThrows
    \/ Merge \/ DedupAdvance \/ DedupEraseHere \/ DedupEraseDup \/ Publish

-----------------------------------------------------------------------------
(* The main loop.                                                          *)

\* sleep_for(100ms).  ClockBound bounds the run: items are created before
\* MaxNow, and the clock stands still when all of them could have expired.
ClockBound == IF ioPc = "parse" THEN MaxNow - Len(todo) ELSE MaxNow + AnonymousTtl + 1
Clock == IF now < ClockBound THEN now + 1 ELSE now

Wake ==
    /\ Alive /\ mainPc = "sleep" /\ ~shouldStop
    /\ now' = Clock
    /\ lastCheckTime + CheckPeriod >= Clock
    /\ mainPc' = "frame"
    /\ UNCHANGED <<allDraws, ioVars, mutex, shouldStop, lastCheckTime,
                   targetAppActive, commandHideLayer, windowWasHidden, screen,
                   unframed, lastToggle>>

\* The focused window is asked for; without a target the overlay is active.
WakeAndCheck ==
    /\ Alive /\ mainPc = "sleep" /\ ~shouldStop
    /\ now' = Clock
    /\ lastCheckTime + CheckPeriod < Clock
    /\ lastCheckTime' = Clock
    /\ targetAppActive' \in (IF HasTarget THEN BOOLEAN ELSE {TRUE})
    /\ mainPc' = "frame"
    /\ UNCHANGED <<allDraws, ioVars, mutex, shouldStop, commandHideLayer,
                   windowWasHidden, screen, unframed, lastToggle>>

\* The compositor is gone, twice in 500 ms: the loop is left, and the reset()
\* below it raises the stop flag and joins.
LoseTransparency ==
    /\ Alive /\ mainPc = "sleep" /\ ~shouldStop
    /\ now' = Clock
    /\ lastCheckTime + CheckPeriod < Clock
    /\ lastCheckTime' = Clock
    /\ targetAppActive' \in (IF HasTarget THEN BOOLEAN ELSE {TRUE})
    /\ mainPc' = "joining"
    /\ shouldStop' = TRUE
    /\ UNCHANGED <<allDraws, ioVars, mutex, commandHideLayer, windowWasHidden,
                   screen, unframed, lastToggle>>

(* The loop over allDraws inside a frame, in the order of the map: "exit"  *)
(* stops it, commands and expired items are erased.                        *)

\* Mutant: commands are looked at only while the target is active.
Exits_WhenActive ==
    {k \in DOMAIN allDraws : targetAppActive /\ allDraws[k].command = "exit"}

Exits == {k \in DOMAIN allDraws : allDraws[k].command = "exit"}
Visited == {k \in DOMAIN allDraws : \A e \in Exits : k < e}
Erased == {k \in Visited : isCommand(allDraws[k]) \/ isExpired(allDraws[k])}

\* Mutant: the erasure of an item does not ask for a redraw.
skipRender_Erased == \A k \in DOMAIN allDraws \ Erased : allDraws[k].rendered

skipRender == /\ Erased = {}
              /\ \A k \in DOMAIN allDraws : allDraws[k].rendered

\* Mutant: the way back from hidden does not force a redraw.
NeedsRedraw_Unhidden == ~skipRender

NeedsRedraw == ~skipRender \/ windowWasHidden

\* Mutant: only what was not rendered yet is drawn on the cleaned frame.
Drawn_New == ContentsOf(Without(allDraws, Erased
                          \cup {k \in DOMAIN allDraws : allDraws[k].rendered}))

Drawn == ContentsOf(Without(allDraws, Erased))

\* Mutant: the window is not cleaned.
HiddenScreen_Kept == screen

\* The window is cleaned when it is hidden, and not once more while it is.
HiddenScreen == IF windowWasHidden THEN screen ELSE {}

VisitedToggles == {k \in Visited : allDraws[k].command \in Toggles}
HideAfter ==
    IF VisitedToggles = {} THEN commandHideLayer
    ELSE \E k \in VisitedToggles : /\ allDraws[k].command = "overlay_off"
                                   /\ \A j \in VisitedToggles : j <= k

FrameStarts == Alive /\ mainPc = "frame" /\ mutex = "free"

\* Shown and something changed: everything is drawn again.
FrameRedraw ==
    /\ FrameStarts /\ Exits = {}
    /\ targetAppActive /\ ~HideAfter
    /\ NeedsRedraw
    /\ allDraws' = [k \in DOMAIN allDraws \ Erased |->
                      [allDraws[k] EXCEPT !.rendered = TRUE]]
    /\ screen' = Drawn
    /\ windowWasHidden' = FALSE
    /\ commandHideLayer' = HideAfter
    /\ mainPc' = "sleep"
    /\ unframed' = FALSE
    /\ UNCHANGED <<ioVars, mutex, shouldStop, lastCheckTime, targetAppActive,
                   now, lastToggle>>

\* Shown and everything is on the screen already: nothing is drawn.
FrameSkip ==
    /\ FrameStarts /\ Exits = {}
    /\ targetAppActive /\ ~HideAfter
    /\ ~NeedsRedraw
    /\ windowWasHidden' = FALSE
    /\ commandHideLayer' = HideAfter
    /\ mainPc' = "sleep"
    /\ unframed' = FALSE
    /\ UNCHANGED <<allDraws, ioVars, mutex, shouldStop, lastCheckTime,
                   targetAppActive, screen, now, lastToggle>>

\* Hidden by a command or by the focus: the window is cleaned once.
FrameHide ==
    /\ FrameStarts /\ Exits = {}
    /\ ~targetAppActive \/ HideAfter
    /\ allDraws' = Without(allDraws, Erased)
    /\ screen' = HiddenScreen
    /\ windowWasHidden' = TRUE
    /\ commandHideLayer' = HideAfter
    /\ mainPc' = "sleep"
    /\ unframed' = FALSE
    /\ UNCHANGED <<ioVars, mutex, shouldStop, lastCheckTime, targetAppActive,
                   now, lastToggle>>

\* "exit" resets the runner inside the frame: the stop flag goes up and the
\* main thread joins with the mutex in its hand.
FrameExit ==
    /\ FrameStarts /\ Exits # {}
    /\ allDraws' = Without(allDraws, Erased)
    /\ commandHideLayer' = HideAfter
    /\ shouldStop' = TRUE
    /\ mutex' = "main"
    /\ mainPc' = "joining"
    /\ UNCHANGED <<ioVars, lastCheckTime, targetAppActive, windowWasHidden,
                   screen, now, unframed, lastToggle>>

\* The network thread has returned from its handler and ends, so join()
\* returns.  After "exit" the frame goes on and cleans the window.
Joined ==
    /\ Alive /\ mainPc = "joining" /\ ioPc = "read"
    /\ ioPc' = "ended"
    /\ mainPc' = "done"
    /\ IF mutex = "main"
       THEN /\ targetAppActive' = FALSE
            /\ screen' = HiddenScreen
            /\ windowWasHidden' = TRUE
       ELSE UNCHANGED <<targetAppActive, screen, windowWasHidden>>
    /\ mutex' = "free"
    /\ UNCHANGED <<allDraws, incoming, todo, iter, autoNext, shouldStop,
                   lastCheckTime, commandHideLayer, now, unframed, lastToggle>>

Frame == FrameRedraw \/ FrameSkip \/ FrameHide \/ FrameExit
Main == Wake \/ WakeAndCheck \/ LoseTransparency \/ Frame \/ Joined

Next == (\E p \in Payloads : Receive(p)) \/ Network \/ Main

Spec == Init /\ [][Next]_vars

\* Both threads are scheduled by the system.  Receive is the plugins' choice,
\* and nothing obliges the compositor to go away.
FairSpec == Spec /\ WF_vars(Network)
                 /\ WF_vars(Wake \/ WakeAndCheck \/ Frame \/ Joined)
-----------------------------------------------------------------------------
(* What some of the properties need of the plugins, besides Paced.         *)

\* The messages that are stored, not those that neither draw nor command.
Stored == {m \in (UNION {{p[i] : i \in 1..Len(p)} : p \in Payloads}) \ {Malformed} :
             m.content # Blank \/ m.command # NoCommand}

\* A name always has the same picture.
NamesKeepPictures ==
    \A m, n \in Stored : m.id = n.id /\ m.id # NoId => m.content = n.content

\* A message holds one item.
OneItemEach == \A p \in Payloads : Len(p) <= 1

\* Pure commands are toggles, without a name, one in a message at most.
TogglesArePlain ==
    /\ \A m \in Stored : /\ m.content = Blank <=> m.command \in Toggles
                         /\ m.command \in Toggles => m.id = NoId
    /\ \A p \in Payloads : \A i, j \in 1..Len(p) :
         (/\ p[i] # Malformed /\ p[j] # Malformed
          /\ p[i].command \in Toggles /\ p[j].command \in Toggles) => i = j

\* No plugin uses a generated key as a name, and the counter does not wrap.
AutoKeysAreFresh ==
    /\ \A i \in 1..Len(AutoKeys) : AutoKeys[i] \notin Ids
    /\ \A i, j \in 1..Len(AutoKeys) : AutoKeys[i] = AutoKeys[j] => i = j

-----------------------------------------------------------------------------
(* Properties.                                                             *)

\* Every variable has its type, whatever the threads do.
TypeOK ==
    /\ IsMap(allDraws) /\ IsMap(incoming)
    /\ todo \in Seq(Message \cup {Malformed})
    /\ iter \in Keys \cup {NoId}
    /\ ioPc \in {"read", "parse", "lock", "dedup", "crashed", "ended"}
    /\ autoNext \in Nat \ {0}
    /\ mutex \in {"free", "io", "main"} /\ shouldStop \in BOOLEAN
    /\ mainPc \in {"sleep", "frame", "joining", "done"}
    /\ now \in Nat /\ lastCheckTime \in Nat
    /\ targetAppActive \in BOOLEAN /\ commandHideLayer \in BOOLEAN
    /\ windowWasHidden \in BOOLEAN
    /\ screen \subseteq Contents \cup {Blank, Banner}
    /\ unframed \in BOOLEAN /\ lastToggle \in Toggles

\* While the overlay counts as hidden there is nothing on the window, whatever
\* arrived, expired or was renamed in the meantime: the redraw on the way back
\* relies on window_was_hidden alone (main.cpp:209-231).
HiddenScreenIsBlank == windowWasHidden => screen = {}

\* An item that is marked as rendered is on the window, so that skipping its
\* drawing loses nothing (the anti-flickering field of drawables.h:162-163).
RenderedIsOnScreen ==
    ~windowWasHidden =>
      \A k \in DOMAIN allDraws : allDraws[k].rendered => allDraws[k].content \in screen

\* Once a frame has seen all that was published the window shows exactly the
\* items of the map, or nothing of them when hidden: no stale and no missing
\* picture.  The banner stays until there is something to draw.
ScreenMatchesItems ==
    mainPc = "sleep" /\ ~unframed /\ ~windowWasHidden /\ ioPc \notin {"dedup", "crashed"}
      => \/ screen = ContentsOf(allDraws)
         \/ screen = {Banner} /\ DOMAIN allDraws = {}

\* The same picture is not in the map twice under two names after
\* removeRenamedDuplicates, when plugins send one item per message.
NoTwinsInStore ==
    \A j, k \in DOMAIN allDraws :
        allDraws[j].content = allDraws[k].content => j = k

\* The overlay is hidden by command exactly when the last toggle a plugin sent
\* was overlay_off, although commands are executed in the order of their keys
\* and duplicates of a pure command are erased.
LastToggleWins ==
    \/ ioPc # "read" \/ mainPc \in {"joining", "done"}
    \/ \E k \in DOMAIN allDraws : isCommand(allDraws[k])
    \/ commandHideLayer <=> lastToggle = "overlay_off"

\* What was in incoming during the critical section is in it, or published,
\* after the step: itself or a newer item with its picture, and rendered if it was.
KeepsItems ==
    \A k \in DOMAIN incoming : ioPc = "dedup" /\ ioPc' # "crashed" =>
      LET after == IF ioPc' = "dedup" THEN incoming' ELSE allDraws'
      IN \E j \in DOMAIN after :
           /\ after[j].content = incoming[k].content
           /\ after[j].created >= incoming[k].created
           /\ incoming[k].rendered => after[j].rendered

\* The map never loses an item that has not expired, unless a newer item with
\* the same picture takes its place or a message with the same id replaced it.
\* Here for the whole of a critical section of the network thread: it begins
\* with Merge, where everything is in incoming, and ends with Publish.
NoItemLost == [][KeepsItems]_vars

\* "We do not allow messages without ID stay forever" (drawables.h:366): an
\* anonymous item leaves the map while the main loop runs.
AnonymousLeaves ==
    \A i \in 1..Len(AutoKeys) :
        AutoKeys[i] \in DOMAIN allDraws ~>
            AutoKeys[i] \notin DOMAIN allDraws \/ mainPc \in {"joining", "done"} \/ ~Alive

\* What is in the map while the overlay is shown gets on the window, unless it
\* leaves the map first or the overlay is hidden or ends.
ItemsGetShown ==
    \A c \in Contents :
        (c \in ContentsOf(allDraws)) ~>
            \/ c \in screen \/ c \notin ContentsOf(allDraws)
            \/ windowWasHidden \/ mainPc \in {"joining", "done"} \/ ~Alive

\* The plugin's self-stop request (edmcoverlay.py:49-52): an exit command that
\* is in the map makes the main thread raise the stop flag.
ExitIsServed ==
    (\E k \in DOMAIN allDraws : allDraws[k].command = "exit") ~> (shouldStop \/ ~Alive)
=============================================================================

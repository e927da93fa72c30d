------------------------------ MODULE Pictures ------------------------------
(***************************************************************************)
(* What the overlay holds at the X server, and who gives it back: the      *)
(* pixmap every drawn item keeps inside the closure drawsvg_t::render, the *)
(* picture of the window, the GC and the display.  The closures are made   *)
(* by the main thread while it draws (XPrivateAccess::drawAsSvg); the nodes*)
(* of the map that own them are moved between two maps, and destroyed, by  *)
(* the network thread as well.                                             *)
(*                                                                         *)
(* An address is that of a map node (drawitem_t); the allocator may give   *)
(* one again as soon as it is free.  A resource id is managed by the       *)
(* TManagedId of one holder at a time.  X11 and lunasvg are external: a    *)
(* content is one that lunasvg draws, one it has no bitmap for, or one it  *)
(* cannot read.  When a frame is due, which commands and expired items it  *)
(* erases and which of two twins stays is left open: DrawStore has that.   *)
(***************************************************************************)
EXTENDS Integers

CONSTANTS
    Keys,         \* the ids of items, in the order of the map
    Contents,     \* the stored data of items
    Drawable,     \* the contents lunasvg makes a bitmap of
    Unreadable,   \* the contents Document::loadFromData returns null for
    Banner,       \* the content of showVersionString
    Addrs,        \* the addresses of items
    XIds,         \* the resource ids of the X connection
    Free,         \* no item at an address
    NoAddr,       \* no address; no closure
    None,         \* no resource id
    Nothing,      \* no resource of an id at the server
    Unfilled,     \* a pixmap before XPutImage
    View          \* a Picture: a view of a pixmap or of the window

Holders == Addrs \cup {"pixmap", "made", "source", "window"}
Resources == Contents \cup {Unfilled, View}

ASSUME PicturesAssumption ==
    /\ Keys \subseteq Nat
    /\ Drawable \subseteq Contents /\ Unreadable \subseteq Contents
    /\ Drawable \cap Unreadable = {}
    /\ Banner \in Contents \ Unreadable
    /\ Addrs \cap {"pixmap", "made", "source", "window"} = {}
    /\ Free \notin [content : Contents, self : Addrs \cup {NoAddr}]
    /\ NoAddr \notin Addrs /\ None \notin XIds
    /\ Nothing \notin Resources /\ {Unfilled, View} \cap Contents = {}

VARIABLES
    heap,       \* what is at each address
    held,       \* the TManagedId of each holder: the closure of an item, the local
                \* pixmap, the tuple made of it, srcPict, g_windowOpaqueDestination
    server,     \* what the server keeps for each id
    display,    \* the connection: "none", "open", "closed"
    gc,         \* single_gc is allocated
    window,     \* the pictures painted on the window since it was cleaned
    allDraws,   \* the shared map: key -> address
    incoming,   \* the map of process_payload
    ioPc,       \* where the network thread is
    mainPc,     \* where the main thread is
    drawing,    \* the item in drawAsSvg
    todo,       \* the keys the frame still has to draw
    mutex,      \* the holder of OutputContext's mutex
    shouldStop  \* the stop flag

xVars == <<held, server, display, gc, window>>
ioVars == <<incoming, ioPc>>
mainVars == <<mainPc, drawing, todo, shouldStop>>
vars == <<heap, xVars, allDraws, ioVars, mainVars, mutex>>

EmptyMap == [k \in {} |-> NoAddr]
NodesOf(map) == {map[k] : k \in DOMAIN map}
Without(map, S) == [k \in DOMAIN map \ S |-> map[k]]
HasClosure(a) == heap[a] # Free /\ heap[a].self # NoAddr
NewItem(content) == [content |-> content, self |-> NoAddr]

-----------------------------------------------------------------------------
(* TManagedId.                                                             *)

Managed == [id : XIds \cup {None}, free : BOOLEAN]
Unset == [id |-> None, free |-> FALSE]
IsInitialized(m) == m.id # None

\* What reset() and the destructor test.
Owns(m) == IsInitialized(m) /\ m.free

\* Mutant: the id and the deleter are copied.
MovedFrom_Copy(m) == m

\* The defaulted move leaves the id in the source; what keeps its destructor
\* from freeing it is the deleter, a std::function that is empty after a move.
MovedFrom(m) == [id |-> m.id, free |-> FALSE]

\* The server after the destructors of these holders.
After(S) ==
    [id \in XIds |-> IF \E h \in S : Owns(held[h]) /\ held[h].id = id
                     THEN Nothing ELSE server[id]]

Ended(S) == [h \in Holders |-> IF h \in S THEN Unset ELSE held[h]]

\* The destructors of holders, and of items with the closures in them.
End(S) == server' = After(S) /\ held' = Ended(S)
Destroy(S) == End(S) /\ heap' = [a \in Addrs |-> IF a \in S THEN Free ELSE heap[a]]

\* XCreatePixmap, XRenderCreatePicture: an id that is not in use.
NewId == CHOOSE id \in XIds : server[id] = Nothing
IdLeft == \E id \in XIds : server[id] = Nothing

Create(holder, resource) ==
    /\ IdLeft
    /\ server' = [server EXCEPT ![NewId] = resource]
    /\ held' = [held EXCEPT ![holder] = [id |-> NewId, free |-> TRUE]]

\* operator new: an address that is not in use.
NewAddr == CHOOSE a \in Addrs : heap[a] = Free
AddrLeft == \E a \in Addrs : heap[a] = Free

-----------------------------------------------------------------------------
Init ==
    /\ heap = [a \in Addrs |-> Free]
    /\ held = [h \in Holders |-> Unset]
    /\ server = [id \in XIds |-> Nothing]
    /\ display = "none" /\ gc = FALSE /\ window = {}
    /\ allDraws = EmptyMap /\ incoming = EmptyMap
    /\ ioPc = "off" /\ mainPc = "start"
    /\ drawing = NoAddr /\ todo = {}
    /\ mutex = "free" /\ shouldStop = FALSE

(* Start-up: the constructor of XPrivateAccess and the banner.             *)

OpenDisplay ==
    /\ mainPc = "start"
    /\ display' = "open"
    /\ mainPc' = "opened"
    /\ UNCHANGED <<heap, held, server, gc, window, allDraws, ioVars, drawing, todo,
                   shouldStop, mutex>>

\* No compositor or no shape extension: the constructor throws, nobody catches
\* it, and the connection ends with the process.
Unsuitable ==
    /\ mainPc = "opened"
    /\ display' = "closed"
    /\ mainPc' = "ended"
    /\ UNCHANGED <<heap, held, server, gc, window, allDraws, ioVars, drawing, todo,
                   shouldStop, mutex>>

\* The window, its GC, and cleanFrame.
CreateWindow ==
    /\ mainPc = "opened"
    /\ gc' = TRUE /\ window' = {}
    /\ mainPc' = "windowed"
    /\ UNCHANGED <<heap, held, server, display, allDraws, ioVars, drawing, todo, shouldStop,
                   mutex>>

\* The banner is an item outside of any map.
ShowVersion ==
    /\ mainPc = "windowed" /\ AddrLeft
    /\ heap' = [heap EXCEPT ![NewAddr] = NewItem(Banner)]
    /\ drawing' = NewAddr
    /\ mainPc' = "draw"
    /\ UNCHANGED <<xVars, allDraws, ioVars, todo, shouldStop, mutex>>

\* The banner is drawn, its item destroyed; the network thread starts.
StartServer ==
    /\ mainPc = "drawn" /\ ioPc = "off"
    /\ Destroy({drawing})
    /\ drawing' = NoAddr
    /\ mainPc' = "sleep" /\ ioPc' = "read"
    /\ UNCHANGED <<display, gc, window, allDraws, incoming, todo, shouldStop, mutex>>

-----------------------------------------------------------------------------
(* drawAsSvg, for the item at "drawing".                                   *)

drawUnchanged == UNCHANGED <<display, gc, allDraws, ioVars, drawing, todo, shouldStop, mutex>>
Content == heap[drawing].content

Cached == HasClosure(drawing)

\* Not an SVG, an empty one, or one without a bitmap: nothing is drawn.
NoPicture ==
    /\ mainPc = "draw" /\ ~Cached
    /\ Content \notin Drawable \cup Unreadable
    /\ mainPc' = "drawn"
    /\ UNCHANGED <<heap, held, server, window>> /\ drawUnchanged

\* loadFromData has returned null, which the code dereferences: undefined, and
\* outside of what try and catch reach.
ReadsNull ==
    /\ mainPc = "draw" /\ ~Cached /\ Content \in Unreadable
    /\ mainPc' = "crashed"
    /\ UNCHANGED <<heap, held, server, window>> /\ drawUnchanged

CreatePixmap ==
    /\ mainPc = "draw" /\ ~Cached /\ Content \in Drawable
    /\ Create("pixmap", Unfilled)
    /\ mainPc' = "image"
    /\ UNCHANGED <<heap, window>> /\ drawUnchanged

\* XCreateImage fails: the local pixmap is destroyed on return.
NoImage ==
    /\ mainPc = "image"
    /\ End({"pixmap"})
    /\ mainPc' = "drawn"
    /\ UNCHANGED <<heap, window>> /\ drawUnchanged

\* XPutImage, and make_tuple, which moves the id out of the local.
PutImage ==
    /\ mainPc = "image"
    /\ server' = [server EXCEPT ![held["pixmap"].id] = Content]
    /\ held' = [held EXCEPT !["made"] = held["pixmap"],
                            !["pixmap"] = MovedFrom(held["pixmap"])]
    /\ mainPc' = "return"
    /\ UNCHANGED <<heap, window>> /\ drawUnchanged

LeaveRender ==
    /\ mainPc = "return"
    /\ End({"pixmap"})
    /\ mainPc' = "install"
    /\ UNCHANGED <<heap, window>> /\ drawUnchanged

\* The closure is moved into the item it refers to: with it goes the pixmap.
Install ==
    /\ mainPc = "install"
    /\ heap' = [heap EXCEPT ![drawing].self = drawing]
    /\ held' = [held EXCEPT ![drawing] = held["made"], !["made"] = MovedFrom(held["made"])]
    /\ mainPc' = "made"
    /\ UNCHANGED <<server, window>> /\ drawUnchanged

\* The end of the block that made the closure.
LeaveMake ==
    /\ mainPc = "made"
    /\ End({"made"})
    /\ mainPc' = "render"
    /\ UNCHANGED <<heap, window>> /\ drawUnchanged

UseCached ==
    /\ mainPc = "draw" /\ Cached
    /\ mainPc' = "render"
    /\ UNCHANGED <<heap, held, server, window>> /\ drawUnchanged

\* The closure runs: a picture of the pixmap,
CreateSource ==
    /\ mainPc = "render"
    /\ Create("source", View)
    /\ mainPc' = "compose"
    /\ UNCHANGED <<heap, window>> /\ drawUnchanged

NeedsTarget == ~IsInitialized(held["window"])

\* one of the window, the first time,
CreateTarget ==
    /\ mainPc = "compose" /\ NeedsTarget
    /\ Create("window", View)
    /\ mainPc' = "composite"
    /\ UNCHANGED <<heap, window>> /\ drawUnchanged

TargetIsMade ==
    /\ mainPc = "compose" /\ ~NeedsTarget
    /\ mainPc' = "composite"
    /\ UNCHANGED <<heap, held, server, window>> /\ drawUnchanged

\* and the pixmap is painted at the place of the item the closure refers to.
Composite ==
    /\ mainPc = "composite"
    /\ window' = window \cup {[shape |-> server[held[drawing].id],
                               place |-> heap[heap[drawing].self].content]}
    /\ mainPc' = "composed"
    /\ UNCHANGED <<heap, held, server>> /\ drawUnchanged

FreeSource ==
    /\ mainPc = "composed"
    /\ End({"source"})
    /\ mainPc' = "drawn"
    /\ UNCHANGED <<heap, window>> /\ drawUnchanged

Drawing ==
    \/ NoPicture \/ ReadsNull \/ CreatePixmap \/ NoImage \/ PutImage \/ LeaveRender
    \/ Install \/ LeaveMake \/ UseCached \/ CreateSource \/ CreateTarget \/ TargetIsMade
    \/ Composite \/ FreeSource

-----------------------------------------------------------------------------
(* The frame.                                                              *)

BeginFrame ==
    /\ mainPc = "sleep" /\ ~shouldStop /\ mutex = "free"
    /\ mutex' = "main"
    /\ mainPc' = "purge"
    /\ UNCHANGED <<heap, xVars, allDraws, ioVars, drawing, todo, shouldStop>>

\* A command or an expired item is erased.
Erase(k) ==
    /\ mainPc = "purge" /\ k \in DOMAIN allDraws
    /\ Destroy({allDraws[k]})
    /\ allDraws' = Without(allDraws, {k})
    /\ UNCHANGED <<display, gc, window, ioVars, mainVars, mutex>>

\* Nothing has changed, or the window stays hidden.
SkipFrame ==
    /\ mainPc = "purge"
    /\ mutex' = "free"
    /\ mainPc' = "sleep"
    /\ UNCHANGED <<heap, xVars, allDraws, ioVars, drawing, todo, shouldStop>>

Hide ==
    /\ mainPc = "purge"
    /\ window' = {}
    /\ mutex' = "free"
    /\ mainPc' = "sleep"
    /\ UNCHANGED <<heap, held, server, display, gc, allDraws, ioVars, drawing, todo, shouldStop>>

\* Mutant: cleanFrame is left out.
Cleaned_Not == window

Cleaned == {}

Redraw ==
    /\ mainPc = "purge"
    /\ window' = Cleaned
    /\ todo' = DOMAIN allDraws
    /\ mainPc' = "next"
    /\ UNCHANGED <<heap, held, server, display, gc, allDraws, ioVars, drawing, shouldStop, mutex>>

DrawItem ==
    /\ mainPc = "next"
    /\ \E k \in todo :
         /\ \A j \in todo : k <= j
         /\ drawing' = allDraws[k]
         /\ todo' = todo \ {k}
    /\ mainPc' = "draw"
    /\ UNCHANGED <<heap, xVars, allDraws, ioVars, shouldStop, mutex>>

ItemDone ==
    /\ mainPc = "drawn" /\ ioPc # "off"
    /\ drawing' = NoAddr
    /\ mainPc' = "next"
    /\ UNCHANGED <<heap, xVars, allDraws, ioVars, todo, shouldStop, mutex>>

EndFrame ==
    /\ mainPc = "next" /\ todo = {}
    /\ mutex' = "free"
    /\ mainPc' = "sleep"
    /\ UNCHANGED <<heap, xVars, allDraws, ioVars, drawing, todo, shouldStop>>

-----------------------------------------------------------------------------
(* The end of main().                                                      *)

\* A signal or the loss of the compositor: reset() outside of a frame.
Stop ==
    /\ mainPc = "sleep" /\ ~shouldStop
    /\ shouldStop' = TRUE
    /\ mainPc' = "join"
    /\ UNCHANGED <<heap, xVars, allDraws, ioVars, drawing, todo, mutex>>

\* The command "exit": reset() inside of it.
ExitCommand ==
    /\ mainPc = "purge"
    /\ shouldStop' = TRUE
    /\ mainPc' = "join"
    /\ UNCHANGED <<heap, xVars, allDraws, ioVars, drawing, todo, mutex>>

\* Drawing throws (out of memory): the frame is left, catch (...) and reset().
FrameThrows ==
    /\ mainPc = "draw" /\ mutex = "main"
    /\ mutex' = "free"
    /\ drawing' = NoAddr /\ todo' = {}
    /\ shouldStop' = TRUE
    /\ mainPc' = "join"
    /\ UNCHANGED <<heap, xVars, allDraws, ioVars>>

\* Mutant: the network thread is told to stop and not joined.
NetworkDone_NotJoined == shouldStop

NetworkDone == ioPc = "gone"

\* join() returns; a frame that has been stopped hides the window.
Joined ==
    /\ mainPc = "join" /\ NetworkDone
    /\ window' = IF mutex = "main" THEN {} ELSE window
    /\ mutex' = IF mutex = "main" THEN "free" ELSE mutex
    /\ mainPc' = "returning"
    /\ UNCHANGED <<heap, held, server, display, gc, allDraws, ioVars, drawing, todo, shouldStop>>

\* The last look into the map.
FinalCleanup ==
    /\ mainPc = "returning" /\ mutex = "free"
    /\ mainPc' = "cleaned"
    /\ UNCHANGED <<heap, xVars, allDraws, ioVars, drawing, todo, shouldStop, mutex>>

\* The locals of main(): the map and the closures in it.
DestroyStore ==
    /\ mainPc = "cleaned"
    /\ Destroy(NodesOf(allDraws))
    /\ allDraws' = EmptyMap
    /\ mainPc' = "statics"
    /\ UNCHANGED <<display, gc, window, ioVars, drawing, todo, shouldStop, mutex>>

\* The static output after main(): the picture of the window and the GC,
FreeWindow ==
    /\ mainPc = "statics"
    /\ End({"window"})
    /\ gc' = FALSE
    /\ mainPc' = "freed"
    /\ UNCHANGED <<heap, display, window, allDraws, ioVars, drawing, todo, shouldStop, mutex>>

\* then the display, and what the server still has of this client is gone.
CloseDisplay ==
    /\ mainPc = "freed"
    /\ display' = "closed"
    /\ server' = [id \in XIds |-> Nothing]
    /\ mainPc' = "ended"
    /\ UNCHANGED <<heap, held, gc, window, allDraws, ioVars, drawing, todo, shouldStop, mutex>>

-----------------------------------------------------------------------------
(* The network thread.                                                     *)

\* An element of a payload becomes an item; one with an id that the payload
\* has had already is assigned to its node.
AddItem(k, content) ==
    /\ ioPc = "read"
    /\ IF k \in DOMAIN incoming
       THEN /\ heap' = [heap EXCEPT ![incoming[k]] = NewItem(content)]
            /\ UNCHANGED incoming
       ELSE /\ AddrLeft
            /\ heap' = [heap EXCEPT ![NewAddr] = NewItem(content)]
            /\ incoming' = [j \in DOMAIN incoming \cup {k} |->
                              IF j = k THEN NewAddr ELSE incoming[j]]
    /\ UNCHANGED <<xVars, allDraws, ioPc, mainVars, mutex>>

\* The parser throws, or the stop flag is up.
DropPayload ==
    /\ ioPc = "read" /\ DOMAIN incoming # {}
    /\ Destroy(NodesOf(incoming))
    /\ incoming' = EmptyMap
    /\ UNCHANGED <<display, gc, window, allDraws, ioPc, mainVars, mutex>>

GoMerge ==
    /\ ioPc = "read" /\ DOMAIN incoming # {} /\ ~shouldStop
    /\ ioPc' = "lock"
    /\ UNCHANGED <<heap, xVars, allDraws, incoming, mainVars, mutex>>

Both == DOMAIN allDraws \cap DOMAIN incoming

\* Mutant: an item with equal data takes over the closure of the one it replaces.
Merged_KeepsClosure ==
    [a \in Addrs |->
       IF \E k \in Both : incoming[k] = a /\ heap[allDraws[k]].content = heap[a].content
       THEN heap[allDraws[CHOOSE k \in Both : incoming[k] = a]]
       ELSE heap[a]]

\* merge() moves nodes between the maps: no item is copied or moved.
Merged == heap

\* incoming_draws.merge(allDraws): of a key that is in both, the node of
\* allDraws stays where it is.
Merge ==
    /\ ioPc = "lock" /\ mutex = "free"
    /\ mutex' = "io"
    /\ incoming' = [k \in DOMAIN allDraws \cup DOMAIN incoming |->
                      IF k \in DOMAIN incoming THEN incoming[k] ELSE allDraws[k]]
    /\ allDraws' = [k \in Both |-> allDraws[k]]
    /\ heap' = Merged
    /\ ioPc' = "clear"
    /\ UNCHANGED <<xVars, mainVars>>

\* allDraws.clear(): the items that are replaced, and their pixmaps.
Clear ==
    /\ ioPc = "clear"
    /\ Destroy(NodesOf(allDraws))
    /\ allDraws' = EmptyMap
    /\ ioPc' = "dedup"
    /\ UNCHANGED <<display, gc, window, incoming, mainVars, mutex>>

\* removeRenamedDuplicates erases one of two items with equal data.
EraseTwin(k, j) ==
    /\ ioPc = "dedup" /\ {k, j} \subseteq DOMAIN incoming /\ k # j
    /\ heap[incoming[k]].content = heap[incoming[j]].content
    /\ Destroy({incoming[k]})
    /\ incoming' = Without(incoming, {k})
    /\ UNCHANGED <<display, gc, window, allDraws, ioPc, mainVars, mutex>>

Publish ==
    /\ ioPc = "dedup"
    /\ allDraws' = incoming /\ incoming' = EmptyMap
    /\ mutex' = "free"
    /\ ioPc' = "read"
    /\ UNCHANGED <<heap, xVars, mainVars>>

NetworkEnds ==
    /\ ioPc = "read" /\ shouldStop /\ DOMAIN incoming = {}
    /\ ioPc' = "gone"
    /\ UNCHANGED <<heap, xVars, allDraws, incoming, mainVars, mutex>>

Network ==
    \/ \E k \in Keys, content \in Contents : AddItem(k, content)
    \/ \E k, j \in Keys : EraseTwin(k, j)
    \/ DropPayload \/ GoMerge \/ Merge \/ Clear \/ Publish \/ NetworkEnds

Main ==
    \/ OpenDisplay \/ Unsuitable \/ CreateWindow \/ ShowVersion \/ StartServer
    \/ Drawing
    \/ BeginFrame \/ (\E k \in Keys : Erase(k)) \/ SkipFrame \/ Hide \/ Redraw
    \/ DrawItem \/ ItemDone \/ EndFrame
    \/ Stop \/ ExitCommand \/ FrameThrows \/ Joined
    \/ FinalCleanup \/ DestroyStore \/ FreeWindow \/ CloseDisplay

Next == (mainPc # "crashed" /\ Network) \/ Main
Spec == Init /\ [][Next]_vars

-----------------------------------------------------------------------------
(* Properties.                                                             *)

MapOf(map) == DOMAIN map \subseteq Keys /\ map \in [DOMAIN map -> Addrs]

\* Every variable has its type.
TypeOK ==
    /\ heap \in [Addrs -> [content : Contents, self : Addrs \cup {NoAddr}] \cup {Free}]
    /\ held \in [Holders -> Managed]
    /\ server \in [XIds -> Resources \cup {Nothing}]
    /\ display \in {"none", "open", "closed"} /\ gc \in BOOLEAN
    /\ window \in SUBSET [shape : Resources, place : Contents]
    /\ MapOf(allDraws) /\ MapOf(incoming)
    /\ ioPc \in {"off", "read", "lock", "clear", "dedup", "gone"}
    /\ mainPc \in {"start", "opened", "windowed", "draw", "image", "return", "install",
                   "made", "render", "compose", "composite", "composed", "drawn", "sleep",
                   "purge", "next", "join", "returning", "cleaned", "statics", "freed", "ended",
                   "crashed"}
    /\ drawing \in Addrs \cup {NoAddr} /\ todo \subseteq Keys
    /\ mutex \in {"free", "main", "io"} /\ shouldStop \in BOOLEAN

\* Between the two threads, the moves from local to local and the errors on the
\* way, every resource at the server has exactly one holder that will free it,
\* and what a holder will free is still there: nothing leaks, nothing is freed
\* twice.
OneOwner ==
    /\ \A h \in Holders : Owns(held[h]) => server[held[h].id] # Nothing
    /\ \A h, g \in Holders : Owns(held[h]) /\ Owns(held[g]) /\ held[h].id = held[g].id => h = g
    /\ \A id \in XIds : server[id] # Nothing => \E h \in Holders : Owns(held[h]) /\ held[h].id = id

\* A closure refers to the item by its address: whatever the maps do with items,
\* it is the item that the closure is in, and that owns its pixmap.
CapturesItself ==
    \A a \in Addrs :
        /\ HasClosure(a) => heap[a].self = a /\ Owns(held[a])
        /\ Owns(held[a]) => HasClosure(a)

\* A redrawn window shows the pictures of the items that are in the map, each
\* one's own at its own place, and no other.
FrameShowsStore ==
    (mainPc = "next" /\ todo = {}) =>
        window = {[shape |-> heap[a].content, place |-> heap[a].content] :
                    a \in {b \in NodesOf(allDraws) : HasClosure(b)}}

\* When the display is closed there is nothing left that would be freed
\* through it.
ClosesEmptyHanded ==
    display = "closed" => \A h \in Holders : ~Owns(held[h])
=============================================================================

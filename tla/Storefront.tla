----------------------------- MODULE Storefront -----------------------------
(***************************************************************************)
(* A business's store in the mini app and its landing page: what owners    *)
(* edit, the payload and the page visitors get, their copies in Redis, and *)
(* an administrator's suspension or deletion of the business.              *)
(*                                                                         *)
(* A request drops the copies before it commits, and a visitor's request   *)
(* stores what it has built from rows it read before.  The pages also show *)
(* the business's active bot; nobody drops the copies when that changes.   *)
(***************************************************************************)
EXTENDS Naturals

CONSTANTS
    Keys,     \* the keys of layout_config: theme_overrides, tagline, hero_cta, ...
    Editors,  \* requests of the owner or an administrator that may overlap
    Visitors, \* requests of visitors that may overlap
    MaxEdits  \* bound of the model: how many edits are begun

SoundConstants == MaxEdits \in Nat

VARIABLES
    status,   \* the business: live, suspended or gone
    content,  \* the committed rows the public pages are made of
    edits,    \* the number of edits begun; each writes its number as the new value
    editor,   \* the editors' requests
    visitor,  \* the visitors' requests
    cache,    \* storefront:<slug> and landing:html:<slug> in Redis
    wanted,   \* history: the last committed value of each layout key
    crossed,  \* history: two edits of the layout overlapped
    slipped   \* history: what of a copy, the business's rows or the bot, was
              \* committed behind it, or may be: a copy stored between a
              \* request's drop and its commit

vars == <<status, content, edits, editor, visitor, cache, wanted, crossed, slipped>>

Pages == {"store", "page"}

Parts == {"rows", "bot"}

Versions == 0..MaxEdits

\* layout is the column layout_config, written whole; config is false before
\* there is a row; items stands for the catalog, site for the landing page's row,
\* bot for the active bot that is shown, if any.
Content == [config : BOOLEAN, layout : [Keys -> Versions], items : Versions,
            site : Versions, bot : Versions]

\* update_storefront_config and bootstrap write the layout; create_item,
\* update_item, delete_item, an item sent to the bot and bootstrap the catalog;
\* update_website_config and bootstrap the landing page's row.
LayoutEdits == {"storefront", "bootstrap"}

CatalogEdits == {"catalog", "bootstrap"}

SiteEdits == {"website", "bootstrap"}

Kinds == LayoutEdits \cup CatalogEdits \cup SiteEdits

None == [st |-> "none"]

Idle == [st |-> "idle"]

Edit == [st : {"read", "dropped"}, kind : Kinds,
         new : Versions, had : BOOLEAN, layout : [Keys -> Versions], keys : SUBSET Keys]

Switch == [st : {"read", "dropped"}, kind : {"suspend", "restore", "delete"},
           was : {"live", "suspended"}]

Copying == [st : {"built"}, page : Pages, copy : Content, late : SUBSET Parts]

TypeOK ==
    /\ status \in {"live", "suspended", "gone"}
    /\ content \in Content
    /\ edits \in Versions
    /\ editor \in [Editors -> {Idle} \cup Edit \cup Switch]
    /\ visitor \in [Visitors -> {Idle} \cup Copying]
    /\ cache \in [Pages -> {None} \cup Content]
    /\ wanted \in [Keys -> Versions]
    /\ crossed \in BOOLEAN
    /\ slipped \subseteq Pages \X Parts

Init ==
    /\ status = "live"
    /\ content = [config |-> FALSE, layout |-> [k \in Keys |-> 0], items |-> 0,
                  site |-> 0, bot |-> 0]
    /\ edits = 0
    /\ editor = [e \in Editors |-> Idle]
    /\ visitor = [v \in Visitors |-> Idle]
    /\ cache = [p \in Pages |-> None]
    /\ wanted = [k \in Keys |-> 0]
    /\ crossed = FALSE /\ slipped = {}

rows == <<status, content, wanted>>

-----------------------------------------------------------------------------
(* Edits                                                                   *)

OnLayout(c) == c.st # "idle" /\ c.kind \in LayoutEdits

\* Bootstrap is a storefront edit, a website edit and a catalog edit in one.
StartEdit(e, kind, keys) ==
    /\ editor[e] = Idle /\ status # "gone" /\ edits < MaxEdits
    /\ keys # {} <=> kind \in LayoutEdits
    /\ edits' = edits + 1
    /\ editor' = [editor EXCEPT ![e] =
           [st |-> "read", kind |-> kind, new |-> edits + 1, had |-> content.config,
            layout |-> content.layout, keys |-> keys]]
    /\ crossed' = (crossed \/ (keys # {} /\ \E x \in Editors : OnLayout(editor[x])))
    /\ UNCHANGED <<rows, visitor, cache, slipped>>

\* suspend_business (also to restore) and delete_business.
StartSwitch(e, kind) ==
    /\ editor[e] = Idle /\ status # "gone"
    /\ editor' = [editor EXCEPT ![e] = [st |-> "read", kind |-> kind, was |-> status]]
    /\ UNCHANGED <<rows, edits, visitor, cache, crossed, slipped>>

\* Mutant: the landing page's copy is forgotten.
StoreOnly == [cache EXCEPT !["store"] = None]

Dropped == [p \in Pages |-> None]

\* bust_storefront_cache, the last thing a request does before it commits.
Drop(e) ==
    /\ editor[e].st = "read"
    /\ cache' = Dropped
    /\ slipped' = {}
    /\ editor' = [editor EXCEPT ![e].st = "dropped"]
    /\ UNCHANGED <<rows, edits, visitor, crossed>>

\* Mutant: the layout is written anew and not on a copy of the old one.
FromNothing(old, keys, new) == [k \in Keys |-> IF k \in keys THEN new ELSE 0]

Merged(old, keys, new) == [k \in Keys |-> IF k \in keys THEN new ELSE old[k]]

\* The first edit adds the row; of two that add it the second fails.
Written(c) ==
    [config |-> content.config \/ c.keys # {},
     layout |-> IF c.keys = {} THEN content.layout ELSE Merged(c.layout, c.keys, c.new),
     items  |-> IF c.kind \in CatalogEdits THEN c.new ELSE content.items,
     site   |-> IF c.kind \in SiteEdits THEN c.new ELSE content.site,
     bot    |-> content.bot]

MarkLate(part) == visitor' = [v \in Visitors |->
    IF visitor[v].st = "built" THEN [visitor[v] EXCEPT !.late = @ \cup {part}] ELSE visitor[v]]

CommitEdit(e) ==
    /\ editor[e].st = "dropped" /\ editor[e] \in Edit /\ status # "gone"
    /\ LET c == editor[e] IN
       /\ c.keys # {} /\ ~c.had => ~content.config
       /\ content' = Written(c)
       /\ wanted' = [k \in Keys |-> IF k \in c.keys THEN c.new ELSE wanted[k]]
    /\ editor' = [editor EXCEPT ![e] = Idle]
    /\ MarkLate("rows")
    /\ UNCHANGED <<status, edits, cache, crossed, slipped>>

\* is_suspended is written only if it differs from the value the request has
\* read; a deleted business's rows go with it.
CommitSwitch(e) ==
    /\ editor[e].st = "dropped" /\ editor[e] \in Switch /\ status # "gone"
    /\ LET c == editor[e]
           to == CASE c.kind = "suspend" -> "suspended"
                   [] c.kind = "restore" -> "live"
                   [] c.kind = "delete"  -> "gone" IN
       status' = IF to = c.was THEN status ELSE to
    /\ editor' = [editor EXCEPT ![e] = Idle]
    /\ MarkLate("rows")
    /\ UNCHANGED <<content, edits, cache, wanted, crossed, slipped>>

\* The request fails or its rows cannot be written; the copies stay dropped.
Fail(e) ==
    /\ editor[e] # Idle
    /\ editor' = [editor EXCEPT ![e] = Idle]
    /\ UNCHANGED <<rows, edits, visitor, cache, crossed, slipped>>

\* A bot is connected, paused, resumed, disconnected, suspended, or goes into
\* grace and back: another one is the oldest that is active, or none.
ChangeBot ==
    /\ status # "gone" /\ edits < MaxEdits
    /\ edits' = edits + 1
    /\ content' = [content EXCEPT !.bot = edits + 1]
    /\ MarkLate("bot")
    /\ slipped' = slipped \cup ({p \in Pages : cache[p] # None} \X {"bot"})
    /\ UNCHANGED <<status, wanted, editor, cache, crossed>>

-----------------------------------------------------------------------------
(* Visitors; one who finds a copy is shown it and changes nothing.         *)

\* The mini app's payload has no part of the landing page's row.
StoreOf == [content EXCEPT !.site = 0]

\* _build_context starts from the mini app's content.
PageOf == content

Shown(p) == IF p = "store" THEN StoreOf ELSE PageOf

\* _build_payload, _build_context; nothing is built for a business gone dark.
\* Its SELECTs are one step here: what is committed between them makes the copy
\* late as well.
Build(v, p) ==
    /\ visitor[v] = Idle /\ cache[p] = None /\ status = "live"
    /\ visitor' = [visitor EXCEPT ![v] =
           [st |-> "built", page |-> p, copy |-> Shown(p), late |-> {}]]
    /\ UNCHANGED <<rows, edits, editor, cache, crossed, slipped>>

Fill(v) ==
    /\ visitor[v].st = "built"
    /\ LET p == visitor[v].page
           gap == IF \E e \in Editors : editor[e].st = "dropped" THEN {"rows"} ELSE {} IN
       /\ cache' = [cache EXCEPT ![p] = visitor[v].copy]
       /\ slipped' = (slipped \ ({p} \X Parts)) \cup ({p} \X (visitor[v].late \cup gap))
    /\ visitor' = [visitor EXCEPT ![v] = Idle]
    /\ UNCHANGED <<rows, edits, editor, crossed>>

\* A copy lives five minutes.
Expire(p) ==
    /\ cache[p] # None
    /\ cache' = [cache EXCEPT ![p] = None]
    /\ slipped' = slipped \ ({p} \X Parts)
    /\ UNCHANGED <<rows, edits, editor, visitor, crossed>>

Next ==
    \/ \E e \in Editors, keys \in SUBSET Keys :
         \E kind \in Kinds : StartEdit(e, kind, keys)
    \/ \E e \in Editors, kind \in {"suspend", "restore", "delete"} : StartSwitch(e, kind)
    \/ \E e \in Editors : Drop(e)
    \/ \E e \in Editors : CommitEdit(e)
    \/ \E e \in Editors : CommitSwitch(e)
    \/ \E e \in Editors : Fail(e)
    \/ ChangeBot
    \/ \E v \in Visitors, p \in Pages : Build(v, p)
    \/ \E v \in Visitors : Fill(v)
    \/ \E p \in Pages : Expire(p)

Spec == Init /\ [][Next]_vars

-----------------------------------------------------------------------------
\* What was last saved under a key of the layout is there, unless two edits of
\* the layout overlapped: each writes the whole column from the one it has read
\* (update_storefront_config, bootstrap).
NoEditLost == ~crossed => content.layout = wanted

SameButBot(copy, shown) == copy = [shown EXCEPT !.bot = copy.bot]

\* A copy in Redis is what the business's rows say now, unless it slipped in
\* between a request's drop and its commit or was built before a commit and
\* stored after it; and the bot it shows is the one that is active, unless
\* another became so since the copy's rows were read, after which no request
\* drops it (bust_storefront_cache, get_storefront, _render_landing).
FreshUnlessSlipped ==
    \A p \in Pages : cache[p] # None =>
        /\ <<p, "rows">> \notin slipped => status = "live" /\ SameButBot(cache[p], Shown(p))
        /\ <<p, "bot">> \notin slipped => cache[p].bot = content.bot

\* While a business is suspended no copy of it is served (suspend_business:
\* "refresh public caches so a suspended store/site goes dark immediately").
\* False: a visitor who comes between the drop and the commit stores it again.
DarkAtOnce == status = "suspended" => \A p \in Pages : cache[p] = None

=============================================================================

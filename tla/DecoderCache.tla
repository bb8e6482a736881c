----------------------------- MODULE DecoderCache -----------------------------
(* The MPP image decoder's sessions and their cache,                          *)
(* image/mpp/lv_aic_mpp_decoder.c.  Every operation is one section under      *)
(* g_mpp_lock; readers are descriptors opened from the UI thread (GE2D unit)  *)
(* and the software draw thread.  A session is one decoded picture; the cache *)
(* keeps some of them after their last reader, in the order of their use.     *)
(* Sources change only after a drop, which the UI thread does in one go, as   *)
(* docs/resource-stage.md asks for.                                           *)
EXTENDS Naturals, FiniteSetsExt, Functions

CONSTANTS
  Source,      \* images: paths or descriptors
  Reader,      \* descriptors that may be open at a time
  Session,     \* names of decoded pictures in memory
  NoSession,
  Free,        \* no picture
  Requests,    \* arguments readers pass
  Costs,       \* bytes a picture may count for
  Limits,      \* budgets set_limit is called with, 0 among them
  MaxEntries,  \* AIC_LVGL_MPP_CACHE_ENTRIES
  MaxVersion   \* bound on the changes of a source

\* lv_image_decoder_args_t: premultiply and use_indexed act alike (pre).
Args == [pre : BOOLEAN, align : BOOLEAN]

ASSUME CacheConstants ==
  /\ IsFiniteSet(Session) /\ IsFiniteSet(Reader) /\ NoSession \notin Session
  /\ Requests \subseteq Args
  /\ Costs \subseteq Nat \ {0} /\ Limits \subseteq Nat /\ 0 \in Limits
  /\ MaxEntries \in Nat \ {0} /\ MaxVersion \in Nat

VARIABLES
  version,     \* what each source holds now
  ses,         \* the sessions: Free, or a record
  older,       \* g_cache_oldest .. g_cache_newest: the entries older than each entry
  limit,       \* g_cache.limit_bytes
  bytes,       \* g_cache.bytes
  opens,       \* g_open_sessions
  has,         \* the session of each reader (dsc->user_data)
  registered   \* g_aic_mpp_decoder exists

cacheVars == <<ses, older, limit, bytes, opens, has, registered, version>>

Sessions ==
  [src : Source, ver : 0..MaxVersion, args : Args, heap : BOOLEAN, align : BOOLEAN,
   cost : Costs, refs : 0..Cardinality(Reader), cached : BOOLEAN, invalid : BOOLEAN]

\* What a reader sees of a session.
Pictures == [src : Source, ver : 0..MaxVersion, pre : BOOLEAN, align : BOOLEAN, dma : BOOLEAN]

ASSUME FreeIsNone == Free \notin Sessions \cup Pictures

CacheInit ==
  /\ ses = [s \in Session |-> Free] /\ older = [s \in {} |-> {}] /\ bytes = 0 /\ opens = 0
  /\ limit \in Limits \ {0}
  /\ has = [r \in Reader |-> NoSession] /\ registered = FALSE
  /\ version = [src \in Source |-> 0]

-----------------------------------------------------------------------------
(* The list; slips the runs must notice come before their originals. *)

Entries == DOMAIN older
Cost(S) == SumFunctionOnSet([s \in Entries |-> ses[s].cost], S)
Idle == {s \in Entries : ses[s].refs = 0}

\* evict_one, k times: the oldest entries without readers; and until it is enough
\* or none is left, where counts says how many are.
Oldest(k) == {s \in Idle : Cardinality(older[s] \cap Idle) < k}
Evicted(counts) == IF counts = {} THEN Idle ELSE Oldest(Min(counts))

\* Entries and pictures that are gone (lv_aic_mpp_cache_remove); an entry that is
\* the newest from now on.
Released(S) == [s \in Session |-> IF s \in S THEN Free ELSE ses[s]]
Kept(S) == [s \in Entries \ S |-> older[s] \ S]
Newest(s, S) ==
  [t \in (Entries \ S) \cup {s} |-> IF t = s THEN Entries \ (S \cup {s}) ELSE older[t] \ (S \cup {s})]

\* lv_aic_mpp_cache_args_compatible, for a picture that need not be aligned to
\* serve a request without alignment, but must not be a heap copy.
Compatible(s, args) ==
  /\ ses[s].args.pre = args.pre
  /\ \/ ses[s].args.align = args.align
     \/ ~ses[s].heap /\ (~args.align \/ ses[s].align)

\* The entries lv_aic_mpp_cache_acquire may stop at.
HitsStale(src, args) == {s \in Entries : ses[s].src = src /\ Compatible(s, args)}
Hits(src, args) ==
  {s \in Entries : ~ses[s].invalid /\ ses[s].src = src /\ Compatible(s, args)}

-----------------------------------------------------------------------------
(* The operations *)

\* open_cb when acquire finds an entry: the newest, which is the newest again.
OpenHit(r, src, args) ==
  /\ registered /\ has[r] = NoSession
  /\ limit > 0
  /\ \E s \in Hits(src, args) :
     /\ Hits(src, args) \ {s} \subseteq older[s]
     /\ ses' = [ses EXCEPT ![s].refs = @ + 1]
     /\ older' = Newest(s, {})
     /\ has' = [has EXCEPT ![r] = s]
  /\ opens' = opens + 1
  /\ UNCHANGED <<limit, bytes, registered, version>>

Missed(r, src, args, nocache) ==
  /\ registered /\ has[r] = NoSession
  /\ nocache \/ limit = 0 \/ Hits(src, args) = {}

\* Whether insert may keep an entry of this cost when these are gone.
Fits(gone, cost) ==
  cost + bytes - Cost(gone) <= limit /\ Cardinality(Entries \ gone) < MaxEntries

\* A miss that decodes.  cma_alloc has evicted k entries to get memory.
\* Post-processing leaves a copy on the heap if a stride or a premultiplication
\* needs one; insert keeps the entry if it may, if it fits and if its key could
\* be copied (named).
OpenDecodes(r, src, args, nocache) ==
  /\ Missed(r, src, args, nocache)
  /\ \E s \in {t \in Session : ses[t] = Free}, k \in 0..Cardinality(Idle), cost \in Costs,
        heap, align, named \in BOOLEAN :
     LET wanted == ~nocache /\ limit > 0 /\ cost <= limit
         gone   == IF wanted
                     THEN Evicted({j \in k..Cardinality(Idle) : Fits(Oldest(j), cost)})
                     ELSE Oldest(k)
         cached == wanted /\ named /\ Fits(gone, cost)
     IN
     /\ heap => args.pre \/ args.align
     /\ args.align => align
     /\ ses' = [Released(gone) EXCEPT
          ![s] = [src |-> src, ver |-> version[src], args |-> args, heap |-> heap, align |-> align,
                  cost |-> cost, refs |-> 1, cached |-> cached, invalid |-> FALSE]]
     /\ older' = IF cached THEN Newest(s, gone) ELSE Kept(gone)
     /\ bytes' = bytes - Cost(gone) + (IF cached THEN cost ELSE 0)
     /\ has' = [has EXCEPT ![r] = s]
  /\ opens' = opens + 1
  /\ UNCHANGED <<limit, registered, version>>

\* A miss that fails, for want of memory or anywhere later: its session is
\* released, and what it evicted is gone.
OpenFails(r, src, args, nocache) ==
  /\ Missed(r, src, args, nocache)
  /\ \E k \in 0..Cardinality(Idle) :
       ses' = Released(Oldest(k)) /\ older' = Kept(Oldest(k)) /\ bytes' = bytes - Cost(Oldest(k))
  /\ UNCHANGED <<limit, opens, has, registered, version>>

\* close_cb: who leaves last takes an entry along that is invalid or too much.
GoesAnyway(s) == ~ses[s].cached \/ ses[s].invalid \/ bytes > limit
Goes(s) == ~ses[s].cached \/ (ses[s].refs = 1 /\ (ses[s].invalid \/ bytes > limit))
CloseReader(r) ==
  LET s == has[r] IN
  /\ s # NoSession
  /\ IF Goes(s)
       THEN /\ ses' = Released({s}) /\ older' = Kept({s})
            /\ bytes' = bytes - (IF ses[s].cached THEN ses[s].cost ELSE 0)
       ELSE /\ ses' = [ses EXCEPT ![s].refs = @ - 1]
            /\ UNCHANGED <<older, bytes>>
  /\ has' = [has EXCEPT ![r] = NoSession]
  /\ opens' = opens - 1
  /\ UNCHANGED <<limit, registered, version>>

\* drop_locked: entries of these sources are hidden, and freed if nobody reads.
DropLocked(S) ==
  LET hit  == {s \in Entries : ses[s].src \in S}
      gone == {s \in hit : ses[s].refs = 0}
  IN
  /\ ses' = [s \in Session |->
       IF s \in gone THEN Free
       ELSE IF s \in hit THEN [ses[s] EXCEPT !.invalid = TRUE] ELSE ses[s]]
  /\ older' = Kept(gone)
  /\ bytes' = bytes - Cost(gone)

CacheDrop(S) ==
  /\ DropLocked(S)
  /\ UNCHANGED <<limit, opens, has, registered, version>>

\* The application drops a source and changes it.
DropAndChange(src) ==
  /\ version[src] < MaxVersion
  /\ DropLocked({src})
  /\ version' = [version EXCEPT ![src] = @ + 1]
  /\ UNCHANGED <<limit, opens, has, registered>>

SetLimit(b) ==
  /\ limit' = b
  /\ IF b = 0
       THEN DropLocked(Source)
       ELSE LET gone == Evicted({j \in 0..Cardinality(Idle) : bytes - Cost(Oldest(j)) <= b})
            IN ses' = Released(gone) /\ older' = Kept(gone) /\ bytes' = bytes - Cost(gone)
  /\ UNCHANGED <<opens, has, registered, version>>

DecoderInit ==
  /\ ~registered /\ registered' = TRUE
  /\ UNCHANGED <<ses, older, limit, bytes, opens, has, version>>

\* lv_aic_mpp_decoder_deinit; with descriptors open it does nothing.
CanDeinit == opens = 0
DecoderDeinit ==
  /\ registered /\ CanDeinit
  /\ DropLocked(Source)
  /\ registered' = FALSE
  /\ UNCHANGED <<limit, opens, has, version>>

CacheOps ==
  \/ \E r \in Reader, src \in Source, args \in Requests :
       \/ OpenHit(r, src, args)
       \/ \E nocache \in BOOLEAN :
            OpenDecodes(r, src, args, nocache) \/ OpenFails(r, src, args, nocache)
  \/ \E r \in Reader : CloseReader(r)
  \/ \E src \in Source : CacheDrop({src}) \/ DropAndChange(src)
  \/ CacheDrop(Source)
  \/ \E b \in Limits : SetLimit(b)

CacheNext == CacheOps \/ DecoderInit \/ DecoderDeinit
CacheSpec == CacheInit /\ [][CacheNext]_cacheVars

-----------------------------------------------------------------------------
(* Properties *)

Live == {s \in Session : ses[s] # Free}
ReadersOf(s) == {r \in Reader : has[r] = s}

CacheTypeOK ==
  /\ ses \in [Session -> Sessions \cup {Free}]
  /\ Entries \subseteq Session /\ older \in [Entries -> SUBSET Session]
  /\ limit \in Limits /\ bytes \in Nat /\ opens \in Nat
  /\ has \in [Reader -> Session \cup {NoSession}] /\ registered \in BOOLEAN
  /\ version \in [Source -> 0..MaxVersion]

\* The counters of sessions and cache say who reads and what is kept; what
\* nobody reads and no entry keeps is not in memory.
CacheAccounted ==
  /\ CacheTypeOK
  /\ \A r \in Reader : has[r] # NoSession => has[r] \in Live
  /\ \A s \in Live :
       /\ ses[s].refs = Cardinality(ReadersOf(s))
       /\ ses[s].cached <=> s \in Entries
       /\ ~ses[s].cached => ses[s].refs = 1
  /\ Entries \subseteq Live
  /\ opens = Cardinality({r \in Reader : has[r] # NoSession})
  /\ bytes = Cost(Entries)

\* The budget is kept; only entries with readers exceed one that was lowered,
\* and only readers keep an entry that was dropped.
BudgetKept ==
  /\ Cardinality(Entries) <= MaxEntries
  /\ \A s \in Entries : ses[s].refs = 0 => ~ses[s].invalid /\ bytes <= limit

\* The list is one: of two entries one is the older, and so is what is older than that.
ListIsOrder ==
  \A s \in Entries :
    /\ older[s] \subseteq Entries \ {s}
    /\ \A t \in Entries \ {s} : s \in older[t] <=> t \notin older[s]
    /\ \A t \in older[s] : older[t] \subseteq older[s]

\* No picture is kept twice, and what a hit may return is what the source holds.
CacheCurrent ==
  \A s, t \in Entries :
    ~ses[s].invalid =>
      /\ ses[s].ver = version[ses[s].src]
      /\ s # t /\ ~ses[t].invalid => <<ses[s].src, ses[s].args>> # <<ses[t].src, ses[t].args>>

\* A decoder that has gone has left nothing in memory: no leak, no reader.
GoneIsEmpty == ~registered => Live = {} /\ opens = 0

\* What holds whenever g_mpp_lock is free.
CacheInv == CacheAccounted /\ ListIsOrder /\ BudgetKept /\ CacheCurrent /\ GoneIsEmpty

\* What the readers see is what the store promises.
View(r) ==
  IF has[r] = NoSession THEN Free
  ELSE LET p == ses[has[r]]
       IN [src |-> p.src, ver |-> p.ver, pre |-> p.args.pre, align |-> p.align, dma |-> ~p.heap]
Store == INSTANCE PictureStore WITH Nothing <- Free, shown <- [r \in Reader |-> View(r)]
PicturesHonoured == Store!StoreSpec
=============================================================================

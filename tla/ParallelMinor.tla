--------------------------- MODULE ParallelMinor ---------------------------
(***************************************************************************)
(* The parallel minor (young-generation) collection of the swiper GC,      *)
(* src/src/gc/swiper/pminor.rs.  One behaviour is one call of              *)
(* ParallelMinorCollector::collect: the single-threaded root, dirty-card   *)
(* and large-object scans (each using the sequential copy), then the       *)
(* CopyTask workers that trace the gray objects with work stealing, CAS    *)
(* forwarding, thread-local allocation buffers (Lab) and shared bump       *)
(* frontiers (SpaceAlloc), then the finalisation that either swaps the     *)
(* semi-spaces or undoes the forwarding after a promotion failure.         *)
(*                                                                         *)
(* Data is abstracted: an object is a model value with a sequence of       *)
(* reference fields; a reference names an object, the space of the copy   *)
(* it denotes ("orig" for its from/eden original) and the copy's address   *)
(* as the allocators compute it (0 for an original).                       *)
(***************************************************************************)
EXTENDS Integers, Sequences, FiniteSets, SequencesExt, Functions

CONSTANTS
    Young,            \* objects in eden / from-space when collect() starts
    OldSeq,           \* pre-existing old-generation objects, in address order
    LargeSeq,         \* objects of the large space, in visiting order
    Nil,              \* a null or non-heap reference
    Field,            \* Field[o]: the reference fields of object o (a sequence)
    Roots,            \* the root slots' values when collect() starts
    Size,             \* Size[o]: words of young object o
    Tenured,          \* objects for which young.should_be_promoted holds
    ArrayRef,         \* young objects for which is_array_ref holds
    ARRAY_HEADER,     \* words of an array before its first element
    OldAddr,          \* OldAddr[x]: start address of pre-existing old object x
    OldStart,         \* first address of the old generation
    InitOldTop,       \* old.top() when collect() starts
    InitOldLimit,     \* old.limit() when collect() starts
    OldMax,           \* how far OldGen::grow can extend the old generation
    GrowStep,         \* words added by one OldGen::grow
    YoungStart,       \* young.to_committed().start
    YoungLimit,       \* young.to_committed().end
    CARD_SIZE,        \* words per card
    CLAB_SIZE,        \* words per Lab refill (TLAB_SIZE)
    CLAB_OBJECT_SIZE, \* objects below this size go through the Lab
    LOCAL_MAXIMUM,    \* capacity of a task's private local buffer
    DEFENSIVE_PERIOD, \* pushes between two defensive_push spills (256)
    DEFENSIVE_MIN,    \* local length above which a spill happens (4)
    NW                \* threadpool.thread_count()

Old == ToSet(OldSeq)
Large == ToSet(LargeSeq)
Workers == 0 .. NW - 1
Spaces == {"orig", "young", "old"}
Ref == [obj : Young, sp : Spaces, at : Nat]
Slot == Ref \cup {Nil}
CardEntry == {"clean", "dirty"}
Cards == 0 .. ((OldMax - OldStart) \div CARD_SIZE)
NullLab == [top |-> 0, limit |-> 0]

ASSUME /\ NW \in Nat \ {0}
       /\ Field \in [Young \cup Old \cup Large -> Seq(Young \cup {Nil})]
       /\ Roots \in Seq(Young \cup {Nil})
       /\ Size \in [Young -> Nat \ {0}]
       /\ Tenured \subseteq Young
       /\ \A k \in 1 .. Len(OldSeq) - 1 : OldAddr[OldSeq[k]] < OldAddr[OldSeq[k + 1]]
       /\ \A x \in Old : OldStart <= OldAddr[x] /\ OldAddr[x] < InitOldTop
       /\ OldStart <= InitOldTop /\ InitOldTop <= InitOldLimit /\ InitOldLimit <= OldMax
       /\ 0 < YoungStart /\ YoungStart <= YoungLimit
       /\ 0 < OldStart
       /\ CLAB_OBJECT_SIZE <= CLAB_SIZE
       /\ ArrayRef \subseteq Young
       /\ \A o \in ArrayRef : Size[o] = ARRAY_HEADER + Len(Field[o])

VARIABLES
    phase,            \* "roots" | "cards" | "large" | "trace" | "done"
    cursor,           \* index of the root / old object / large object scanned
    sub,              \* index of the field scanned within that object
    cardYoung,        \* ref_to_young_gen of the card or large object scanned
    rootVal,          \* the root slots
    oldField,         \* fields of the old and large objects
    cards,            \* card table entries of the old generation
    largeCard,        \* card entry of each large object
    fwd,              \* header of each young original: "none", "failed" or a copy
    copyField,        \* fields of the copy that won the forwarding of o
    youngTop,         \* young_top (the Mutex shared by the tasks)
    oldTop,           \* old_top (the Mutex shared by the tasks)
    oldLimit,         \* self.old_limit of the sequential allocator
    oldGenLimit,      \* limit of the old generation, moved by OldGen::grow
    promotionFailed,  \* self.promotion_failed
    promotedSize,     \* self.promoted_size
    worklist,         \* self.worklist filled by the sequential copy
    result,           \* the value collect() returns once phase = "done"
    minorPromoted,    \* config.minor_promoted
    minorCopied       \* config.minor_copied

VARIABLES
    wpc,              \* per task: "pop" | "trace" | "cas" | "term" | "wait" | "done"
    cur,              \* the gray object the task is tracing
    fi,               \* index of the field of cur being visited
    refYoung,         \* ref_to_young_gen of trace_old_object
    pend,             \* allocation made by copy() before its CAS
    local,            \* the task's private local Vec
    deque,            \* the task's crossbeam Worker deque
    traced,           \* the task's traced counter of defensive_push
    ylab, olab,       \* young_lab and old_lab: [top, limit]
    yfailed, ofailed, \* young_alloc.failed and old_alloc.failed
    olimit,           \* old_alloc.limit
    tPromoted,        \* task.promoted_size
    active            \* the Terminator's count of active workers

seqVars == <<phase, cursor, sub, cardYoung, rootVal, oldField, cards, largeCard>>
heapVars == <<fwd, copyField, youngTop, oldTop, oldLimit, oldGenLimit,
              promotionFailed, promotedSize, worklist>>
outVars == <<result, minorPromoted, minorCopied>>
taskVars == <<wpc, cur, fi, refYoung, pend, local, deque, traced, ylab, olab,
              yfailed, ofailed, olimit, tPromoted, active>>
vars == <<seqVars, heapVars, outVars, taskVars>>

Orig(o) == IF o = Nil THEN Nil ELSE [obj |-> o, sp |-> "orig", at |-> 0]
OrigFields(o) == [j \in DOMAIN Field[o] |-> Orig(Field[o][j])]
\* Header states: unforwarded, the promotion-failure marker, or a copy.
NoFwd == [sp |-> "none", at |-> 0]
FailFwd == [sp |-> "failed", at |-> 0]
IsCopy(h) == h.sp \in {"young", "old"}
CopyRef(o) == [obj |-> o, sp |-> fwd[o].sp, at |-> fwd[o].at]
\* young.contains: eden, from-space and to-space
IsYoung(r) == r # Nil /\ r.sp \in {"orig", "young"}
CardOf(a) == (a - OldStart) \div CARD_SIZE
Grow(l) == IF l + GrowStep <= OldMax THEN l + GrowStep ELSE OldMax

(***************************************************************************)
(* Sequential phases (ParallelMinorCollector::copy and its callers).       *)
(***************************************************************************)

\* alloc_old / alloc_old_in_lab: bump old_top, growing the generation once.
SeqAllocOld(size) ==
    LET grown == Grow(oldGenLimit)
        fits(l) == oldTop + size <= l
    IN  IF fits(oldLimit)
        THEN [ok |-> TRUE, at |-> oldTop, limit |-> oldLimit, gen |-> oldGenLimit]
        ELSE [ok |-> fits(grown), at |-> oldTop, limit |-> grown, gen |-> grown]

\* The collector's copy state, and the result r of a copy, as one record.
Heap == [r |-> Nil, fwd |-> fwd, copyField |-> copyField, youngTop |-> youngTop,
         oldTop |-> oldTop, oldLimit |-> oldLimit, oldGenLimit |-> oldGenLimit,
         promotionFailed |-> promotionFailed, promotedSize |-> promotedSize,
         worklist |-> worklist]
SetHeap(h) ==
    /\ fwd' = h.fwd
    /\ copyField' = h.copyField
    /\ youngTop' = h.youngTop
    /\ oldTop' = h.oldTop
    /\ oldLimit' = h.oldLimit
    /\ oldGenLimit' = h.oldGenLimit
    /\ promotionFailed' = h.promotionFailed
    /\ promotedSize' = h.promotedSize
    /\ worklist' = h.worklist

\* promote_object of the sequential collector: on success the copy is
\* pushed on the worklist, counted and forwarded; on failure the original
\* is returned and promotion_failed is set.
SeqPromote(v) ==
    LET o == v.obj
        a == SeqAllocOld(Size[o])
        cp == [obj |-> o, sp |-> "old", at |-> a.at]
        h == [Heap EXCEPT !.oldLimit = a.limit, !.oldGenLimit = a.gen]
    IN  IF a.ok
        THEN [h EXCEPT !.r = cp, !.oldTop = a.at + Size[o],
                       !.worklist = Append(worklist, cp),
                       !.promotedSize = promotedSize + Size[o],
                       !.fwd = [fwd EXCEPT ![o] = [sp |-> "old", at |-> a.at]],
                       !.copyField = [copyField EXCEPT ![o] = OrigFields(o)]]
        ELSE [h EXCEPT !.r = v, !.promotionFailed = TRUE]

\* ParallelMinorCollector::copy of a young reference v.
SeqCopy(v) ==
    LET o == v.obj
        next == youngTop + Size[o]
        cp == [obj |-> o, sp |-> "young", at |-> youngTop]
    IN  CASE IsCopy(fwd[o]) -> [Heap EXCEPT !.r = CopyRef(o)]
          [] promotionFailed -> [Heap EXCEPT !.r = v]
          [] o \notin Tenured /\ next <= YoungLimit ->
                [Heap EXCEPT !.r = cp, !.worklist = Append(worklist, cp), !.youngTop = next,
                             !.fwd = [fwd EXCEPT ![o] = [sp |-> "young", at |-> youngTop]],
                             !.copyField = [copyField EXCEPT ![o] = OrigFields(o)]]
          [] OTHER -> SeqPromote(v)

\* Copy v if young.contains(v), otherwise keep it.
SeqVisit(v) == IF IsYoung(v) THEN SeqCopy(v) ELSE [Heap EXCEPT !.r = v]

\* visit_roots: one root slot.
VisitRoot ==
    /\ phase = "roots"
    /\ cursor <= Len(Roots)
    /\ LET h == SeqVisit(rootVal[cursor])
       IN  /\ SetHeap(h)
           /\ rootVal' = [rootVal EXCEPT ![cursor] = h.r]
    /\ cursor' = cursor + 1
    /\ UNCHANGED <<phase, sub, cardYoung, oldField, cards, largeCard, outVars, taskVars>>

ObjCard(k) == CardOf(OldAddr[OldSeq[k]])
LastInCard(k) == k = Len(OldSeq) \/ ObjCard(k + 1) # ObjCard(k)

\* copy_dirty_cards / copy_old_card / copy_range: one field of an object
\* starting in a dirty card below init_old_top.
CopyOldField ==
    /\ phase = "cards"
    /\ cursor <= Len(OldSeq)
    /\ cards[ObjCard(cursor)] = "dirty"
    /\ sub <= Len(Field[OldSeq[cursor]])
    /\ LET x == OldSeq[cursor]
           h == SeqVisit(oldField[x][sub])
       IN  /\ SetHeap(h)
           /\ oldField' = [oldField EXCEPT ![x][sub] = h.r]
           /\ cardYoung' = (cardYoung \/ (IsYoung(oldField[x][sub]) /\ IsYoung(h.r)))
    /\ sub' = sub + 1
    /\ UNCHANGED <<phase, cursor, rootVal, cards, largeCard, outVars, taskVars>>

\* Mutant: the card is cleaned without looking at ref_to_young_gen.
CleanAlways(cs, c, young) == [cs EXCEPT ![c] = "clean"]

\* clean_card_if_no_young_refs
CleanIfNoYoungRefs(cs, c, young) == IF young THEN cs ELSE [cs EXCEPT ![c] = "clean"]

\* The walk leaves an object; after the last object of a dirty card,
\* clean_card_if_no_young_refs.
NextOldObject ==
    /\ phase = "cards"
    /\ cursor <= Len(OldSeq)
    /\ LET c == ObjCard(cursor)
       IN  /\ cards[c] = "clean" \/ sub > Len(Field[OldSeq[cursor]])
           /\ cards' = IF LastInCard(cursor) /\ cards[c] = "dirty"
                       THEN CleanIfNoYoungRefs(cards, c, cardYoung) ELSE cards
           /\ cardYoung' = (cardYoung /\ ~LastInCard(cursor))
    /\ cursor' = cursor + 1
    /\ sub' = 1
    /\ UNCHANGED <<phase, rootVal, oldField, largeCard, heapVars, outVars, taskVars>>

\* visit_large_object: one field of a large object whose card is dirty.
CopyLargeField ==
    /\ phase = "large"
    /\ cursor <= Len(LargeSeq)
    /\ largeCard[LargeSeq[cursor]] = "dirty"
    /\ sub <= Len(Field[LargeSeq[cursor]])
    /\ LET l == LargeSeq[cursor]
           h == SeqVisit(oldField[l][sub])
       IN  /\ SetHeap(h)
           /\ oldField' = [oldField EXCEPT ![l][sub] = h.r]
           /\ cardYoung' = (cardYoung \/ (IsYoung(oldField[l][sub]) /\ IsYoung(h.r)))
    /\ sub' = sub + 1
    /\ UNCHANGED <<phase, cursor, rootVal, cards, largeCard, outVars, taskVars>>

\* visit_large_object returns: early for a clean card, otherwise after
\* clean_card_if_no_young_refs.
NextLargeObject ==
    /\ phase = "large"
    /\ cursor <= Len(LargeSeq)
    /\ LET l == LargeSeq[cursor]
       IN  /\ largeCard[l] = "clean" \/ sub > Len(Field[l])
           /\ largeCard' = IF largeCard[l] = "dirty"
                           THEN CleanIfNoYoungRefs(largeCard, l, cardYoung) ELSE largeCard
    /\ cursor' = cursor + 1
    /\ sub' = 1
    /\ cardYoung' = FALSE
    /\ UNCHANGED <<phase, rootVal, oldField, cards, heapVars, outVars, taskVars>>

\* collect() moves from one phase to the next when a scan is exhausted.
NextPhase ==
    /\ \/ phase = "roots" /\ cursor > Len(Roots) /\ phase' = "cards"
       \/ phase = "cards" /\ cursor > Len(OldSeq) /\ phase' = "large"
    /\ cursor' = 1
    /\ sub' = 1
    /\ cardYoung' = FALSE
    /\ UNCHANGED <<rootVal, oldField, cards, largeCard, heapVars, outVars, taskVars>>

\* The trace phase starts: trace_gray_objects hands the worklist out
\* round-robin to the tasks' deques and fresh SpaceAllocs / Labs.
\* Mutant: an off-by-one in the round-robin split drops the last item.
RoundRobinShort(t) ==
    [k \in 1 .. ((Len(worklist) - t + NW - 2) \div NW) |-> worklist[(k - 1) * NW + t + 1]]

RoundRobin(t) ==
    [k \in 1 .. ((Len(worklist) - t + NW - 1) \div NW) |-> worklist[(k - 1) * NW + t + 1]]

StartTrace ==
    /\ phase = "large"
    /\ cursor > Len(LargeSeq)
    /\ phase' = "trace"
    /\ deque' = [t \in Workers |-> RoundRobin(t)]
    /\ worklist' = <<>>
    /\ olimit' = [t \in Workers |-> oldGenLimit]
    /\ UNCHANGED <<cursor, sub, cardYoung, rootVal, oldField, cards, largeCard,
                   fwd, copyField, youngTop, oldTop, oldLimit, oldGenLimit,
                   promotionFailed, promotedSize, outVars,
                   wpc, cur, fi, refYoung, pend, local, traced, ylab, olab,
                   yfailed, ofailed, tPromoted, active>>

(***************************************************************************)
(* CopyTask allocation: Lab, SpaceAlloc, alloc_young and alloc_old.        *)
(* Each returns the object address (0 for null) and the allocator state    *)
(* after the call.                                                         *)
(***************************************************************************)

LabAlloc(l, size) == l.top + size <= l.limit

\* alloc_young_small / alloc_lab_young and alloc_young_medium / alloc_obj_young
AllocYoung(t, size) ==
    LET l == ylab[t]
        fail(nl) == [at |-> 0, lab |-> nl, top |-> youngTop, failed |-> TRUE]
    IN  IF size < CLAB_OBJECT_SIZE
        THEN IF LabAlloc(l, size)
             THEN [at |-> l.top, lab |-> [l EXCEPT !.top = l.top + size],
                   top |-> youngTop, failed |-> yfailed[t]]
             ELSE IF yfailed[t] THEN fail(l)
             ELSE IF youngTop + CLAB_SIZE <= YoungLimit
             THEN [at |-> youngTop,
                   lab |-> [top |-> youngTop + size, limit |-> youngTop + CLAB_SIZE],
                   top |-> youngTop + CLAB_SIZE, failed |-> FALSE]
             ELSE fail(NullLab)
        ELSE IF yfailed[t] \/ youngTop + size > YoungLimit THEN fail(l)
             ELSE [at |-> youngTop, lab |-> l, top |-> youngTop + size, failed |-> FALSE]

\* alloc_old_small / alloc_lab_old and alloc_old_medium / alloc_obj_old;
\* both call OldGen::grow once when the task's limit is reached.
AllocOld(t, size) ==
    LET l == olab[t]
        grown == Grow(oldGenLimit)
        need == IF size < CLAB_OBJECT_SIZE THEN CLAB_SIZE ELSE size
        newLab == IF size < CLAB_OBJECT_SIZE
                  THEN [top |-> oldTop + size, limit |-> oldTop + CLAB_SIZE] ELSE l
        ok(lim, gen) == [at |-> oldTop, lab |-> newLab, top |-> oldTop + need,
                         failed |-> FALSE, limit |-> lim, gen |-> gen]
        fail(nl, lim, gen) == [at |-> 0, lab |-> nl, top |-> oldTop,
                               failed |-> TRUE, limit |-> lim, gen |-> gen]
    IN  IF size < CLAB_OBJECT_SIZE /\ LabAlloc(l, size)
        THEN [at |-> l.top, lab |-> [l EXCEPT !.top = l.top + size], top |-> oldTop,
              failed |-> ofailed[t], limit |-> olimit[t], gen |-> oldGenLimit]
        ELSE IF ofailed[t] THEN fail(l, olimit[t], oldGenLimit)
        ELSE IF oldTop + need <= olimit[t] THEN ok(olimit[t], oldGenLimit)
        ELSE IF oldTop + need <= grown THEN ok(grown, grown)
        ELSE fail(IF size < CLAB_OBJECT_SIZE THEN NullLab ELSE l, grown, grown)

\* CopyTask::push and defensive_push
Push(t, a) ==
    IF Len(local[t]) < LOCAL_MAXIMUM
    THEN LET l1 == Append(local[t], a)
             keep == Len(l1) \div 2
         IN  IF traced[t] + 1 <= DEFENSIVE_PERIOD
             THEN [local |-> l1, deque |-> deque[t], traced |-> traced[t] + 1]
             ELSE IF Len(l1) > DEFENSIVE_MIN
             THEN [local |-> SubSeq(l1, 1, keep),
                   deque |-> deque[t] \o Reverse(SubSeq(l1, keep + 1, Len(l1))),
                   traced |-> 0]
             ELSE [local |-> l1, deque |-> deque[t], traced |-> 0]
    ELSE [local |-> local[t], deque |-> Append(deque[t], a), traced |-> traced[t]]

(***************************************************************************)
(* CopyTask::run: pop, trace, copy, terminate.                             *)
(***************************************************************************)

\* pop: the local buffer, then the task's own deque (LIFO end), then a
\* steal from the other end of some peer's deque.
Pop(t) ==
    /\ phase = "trace"
    /\ wpc[t] = "pop"
    /\ \/ /\ local[t] # <<>>
          /\ cur' = [cur EXCEPT ![t] = Last(local[t])]
          /\ local' = [local EXCEPT ![t] = Front(local[t])]
          /\ UNCHANGED deque
       \/ /\ local[t] = <<>>
          /\ deque[t] # <<>>
          /\ cur' = [cur EXCEPT ![t] = Last(deque[t])]
          /\ deque' = [deque EXCEPT ![t] = Front(deque[t])]
          /\ UNCHANGED local
       \/ /\ local[t] = <<>>
          /\ deque[t] = <<>>
          /\ NW > 1
          /\ \E q \in Workers \ {t} :
                /\ deque[q] # <<>>
                /\ cur' = [cur EXCEPT ![t] = Head(deque[q])]
                /\ deque' = [deque EXCEPT ![q] = Tail(deque[q])]
          /\ UNCHANGED local
    /\ wpc' = [wpc EXCEPT ![t] = "trace"]
    /\ fi' = [fi EXCEPT ![t] = 1]
    /\ refYoung' = [refYoung EXCEPT ![t] = FALSE]
    /\ UNCHANGED <<seqVars, heapVars, outVars, pend, traced, ylab, olab,
                   yfailed, ofailed, olimit, tPromoted, active>>

\* Mutant: the task gives up when its deque and the steals are empty,
\* forgetting its private local buffer.
PopNoneEager(t) ==
    /\ phase = "trace"
    /\ wpc[t] = "pop"
    /\ deque[t] = <<>>
    /\ wpc' = [wpc EXCEPT ![t] = "term"]
    /\ UNCHANGED <<seqVars, heapVars, outVars, cur, fi, refYoung, pend, local,
                   deque, traced, ylab, olab, yfailed, ofailed, olimit, tPromoted, active>>

\* Mutant: the task already leaves the active count when pop() fails, and
\* try_terminate decrements it a second time.
PopNoneLeave(t) ==
    /\ phase = "trace"
    /\ wpc[t] = "pop"
    /\ local[t] = <<>>
    /\ deque[t] = <<>>
    /\ wpc' = [wpc EXCEPT ![t] = "term"]
    /\ active' = active - 1
    /\ UNCHANGED <<seqVars, heapVars, outVars, cur, fi, refYoung, pend, local,
                   deque, traced, ylab, olab, yfailed, ofailed, olimit, tPromoted>>

\* pop() returns None: the own buffers are empty and the randomised steal
\* (2 * n draws of a peer) found nothing; the task asks the Terminator.
PopNone(t) ==
    /\ phase = "trace"
    /\ wpc[t] = "pop"
    /\ local[t] = <<>>
    /\ deque[t] = <<>>
    /\ wpc' = [wpc EXCEPT ![t] = "term"]
    /\ UNCHANGED <<seqVars, heapVars, outVars, cur, fi, refYoung, pend, local,
                   deque, traced, ylab, olab, yfailed, ofailed, olimit, tPromoted, active>>

\* Store the result of copy() in the field being visited and note whether
\* it still points into the young generation; ry is ref_to_young_gen
\* before the field.
SetField(t, ry, res) ==
    /\ fi' = [fi EXCEPT ![t] = fi[t] + 1]
    /\ refYoung' = [refYoung EXCEPT ![t] = ry \/ IsYoung(res)]

\* slot.address() of element j of the array whose copy r denotes.
SlotAddr(r, j) == r.at + ARRAY_HEADER + j - 1

\* last of trace_old_object: the object's start, then the address of the
\* slot visited before field fi (an array's only; a scalar keeps its start).
LastSlot(t) ==
    IF cur[t].obj \in ArrayRef /\ fi[t] > 1 THEN SlotAddr(cur[t], fi[t] - 1) ELSE cur[t].at

\* on_different_cards(last, slot.address()) && ref_to_young_gen on entering
\* field fi of an old reference array: the card of last is dirtied and
\* ref_to_young_gen reset before the field is visited.
Crosses(t) ==
    /\ cur[t].sp = "old"
    /\ cur[t].obj \in ArrayRef
    /\ refYoung[t]
    /\ CardOf(LastSlot(t)) # CardOf(SlotAddr(cur[t], fi[t]))

\* Mutant: the card of the slot being entered is dirtied instead of the
\* card of last, the one whose young references were seen.
CardsAtSlotNext(t) ==
    IF Crosses(t) THEN [cards EXCEPT ![CardOf(SlotAddr(cur[t], fi[t]))] = "dirty"] ELSE cards

\* The card table and ref_to_young_gen once field fi is entered.
CardsAtSlot(t) ==
    IF Crosses(t) THEN [cards EXCEPT ![CardOf(LastSlot(t))] = "dirty"] ELSE cards
RefYoungAtSlot(t) == refYoung[t] /\ ~Crosses(t)

\* trace_young_object / trace_old_object, one field of cur: a field that is
\* not young is skipped; copy() answers from the header when the object is
\* forwarded or this task's promotion has failed, otherwise it allocates
\* the destination and goes on to its CAS.  Entering a field of an old
\* reference array first dirties the card left behind (CardsAtSlot).  After
\* the last field of an old object with a young reference, the card of
\* last (the object's start, or an array's last slot) is dirtied.
Trace(t) ==
    /\ phase = "trace"
    /\ wpc[t] = "trace"
    /\ LET o == cur[t].obj
           fs == copyField[o]
           v == fs[fi[t]]
           p == v.obj
       IN  \/ /\ fi[t] > Len(fs)
              /\ cards' = IF cur[t].sp = "old" /\ refYoung[t]
                          THEN [cards EXCEPT ![CardOf(LastSlot(t))] = "dirty"] ELSE cards
              /\ wpc' = [wpc EXCEPT ![t] = "pop"]
              /\ UNCHANGED <<fi, refYoung, copyField>>
           \/ /\ fi[t] <= Len(fs)
              /\ ~IsYoung(v)
              /\ fi' = [fi EXCEPT ![t] = fi[t] + 1]
              /\ refYoung' = [refYoung EXCEPT ![t] = RefYoungAtSlot(t)]
              /\ cards' = CardsAtSlot(t)
              /\ UNCHANGED <<wpc, copyField>>
           \/ /\ fi[t] <= Len(fs)
              /\ IsYoung(v)
              /\ fwd[p] # NoFwd \/ ofailed[t]
              /\ LET res == IF IsCopy(fwd[p]) THEN CopyRef(p) ELSE v
                 IN  /\ SetField(t, RefYoungAtSlot(t), res)
                     /\ copyField' = [copyField EXCEPT ![o][fi[t]] = res]
              /\ cards' = CardsAtSlot(t)
              /\ UNCHANGED wpc
    /\ UNCHANGED <<phase, cursor, sub, cardYoung, rootVal, oldField, largeCard,
                   fwd, youngTop, oldTop, oldLimit, oldGenLimit, promotionFailed,
                   promotedSize, worklist, outVars, cur, pend, local, deque, traced,
                   ylab, olab, yfailed, ofailed, olimit, tPromoted, active>>

\* copy() of an unforwarded object by a task whose promotion has not failed:
\* promote it when should_be_promoted, otherwise try alloc_young and fall
\* back to promotion; promote_object allocates with alloc_old.
CopyAlloc(t) ==
    /\ phase = "trace"
    /\ wpc[t] = "trace"
    /\ fi[t] <= Len(copyField[cur[t].obj])
    /\ LET v == copyField[cur[t].obj][fi[t]]
           p == v.obj
           ya == AllocYoung(t, Size[p])
           oa == AllocOld(t, Size[p])
           tryYoung == p \notin Tenured
           inYoung == tryYoung /\ ya.at # 0
       IN  /\ IsYoung(v)
           /\ fwd[p] = NoFwd
           /\ ~ofailed[t]
           /\ IF tryYoung
              THEN /\ ylab' = [ylab EXCEPT ![t] = ya.lab]
                   /\ youngTop' = ya.top
                   /\ yfailed' = [yfailed EXCEPT ![t] = ya.failed]
              ELSE UNCHANGED <<ylab, youngTop, yfailed>>
           /\ IF inYoung
              THEN /\ pend' = [pend EXCEPT ![t] = [kind |-> "young", at |-> ya.at]]
                   /\ UNCHANGED <<olab, oldTop, ofailed, olimit, oldGenLimit>>
              ELSE /\ pend' = [pend EXCEPT ![t] =
                                  [kind |-> IF oa.at # 0 THEN "old" ELSE "fail", at |-> oa.at]]
                   /\ olab' = [olab EXCEPT ![t] = oa.lab]
                   /\ oldTop' = oa.top
                   /\ ofailed' = [ofailed EXCEPT ![t] = oa.failed]
                   /\ olimit' = [olimit EXCEPT ![t] = oa.limit]
                   /\ oldGenLimit' = oa.gen
    /\ wpc' = [wpc EXCEPT ![t] = "cas"]
    /\ refYoung' = [refYoung EXCEPT ![t] = RefYoungAtSlot(t)]
    /\ cards' = CardsAtSlot(t)
    /\ UNCHANGED <<phase, cursor, sub, cardYoung, rootVal, oldField, largeCard,
                   fwd, copyField, oldLimit, promotionFailed, promotedSize,
                   worklist, outVars, cur, fi, local, deque, traced,
                   tPromoted, active>>

\* Mutant: the header is written with a plain store instead of a
\* compare_exchange, so every contender believes it won.
CasStores(p) == TRUE

\* compare_exchange of the forwarding word: it succeeds only while the
\* header still holds the original vtable pointer.
CasWins(p) == fwd[p] = NoFwd

\* The CAS of copy() / promote_object on the header of p.  The winner
\* installs its copy (or, with no old space left, the failure marker),
\* pushes the copy and counts promoted bytes; a loser undoes its Lab
\* allocation with undo_alloc and takes the winner's address.
CopyCas(t) ==
    /\ phase = "trace"
    /\ wpc[t] = "cas"
    /\ LET o == cur[t].obj
           v == copyField[o][fi[t]]
           p == v.obj
           k == pend[t].kind
           win == CasWins(p)
           new == [obj |-> p, sp |-> k, at |-> pend[t].at]
           res == IF win THEN (IF k = "fail" THEN v ELSE new)
                  ELSE (IF IsCopy(fwd[p]) THEN CopyRef(p) ELSE v)
           pushed == Push(t, new)
           undo(l) == [l EXCEPT !.top = l.top - Size[p]]
       IN  /\ fwd' = IF win
                     THEN [fwd EXCEPT ![p] = IF k = "fail" THEN FailFwd
                                             ELSE [sp |-> k, at |-> pend[t].at]]
                     ELSE fwd
           /\ copyField' = [(IF win /\ k # "fail"
                             THEN [copyField EXCEPT ![p] = OrigFields(p)]
                             ELSE copyField) EXCEPT ![o][fi[t]] = res]
           /\ SetField(t, refYoung[t], res)
           /\ IF win /\ k # "fail"
              THEN /\ local' = [local EXCEPT ![t] = pushed.local]
                   /\ deque' = [deque EXCEPT ![t] = pushed.deque]
                   /\ traced' = [traced EXCEPT ![t] = pushed.traced]
              ELSE UNCHANGED <<local, deque, traced>>
           /\ tPromoted' = IF win /\ k = "old"
                           THEN [tPromoted EXCEPT ![t] = tPromoted[t] + Size[p]]
                           ELSE tPromoted
           /\ ylab' = IF ~win /\ k = "young" THEN [ylab EXCEPT ![t] = undo(ylab[t])] ELSE ylab
           /\ olab' = IF ~win /\ k = "old" THEN [olab EXCEPT ![t] = undo(olab[t])] ELSE olab
    /\ wpc' = [wpc EXCEPT ![t] = "trace"]
    /\ UNCHANGED <<seqVars, youngTop, oldTop, oldLimit, oldGenLimit, promotionFailed,
                   promotedSize, worklist, outVars, cur, pend, yfailed, ofailed,
                   olimit, active>>

\* Mutant: the task's promoted size overwrites the shared one.
TaskExitOverwrite(t) ==
    /\ wpc' = [wpc EXCEPT ![t] = "done"]
    /\ ylab' = [ylab EXCEPT ![t] = NullLab]
    /\ olab' = [olab EXCEPT ![t] = NullLab]
    /\ promotedSize' = tPromoted[t]
    /\ promotionFailed' = (promotionFailed \/ ofailed[t])

\* Mutant: a task's old_alloc failure is not merged into the shared
\* promotion_failed when it leaves.
TaskExitDropsFailure(t) ==
    /\ wpc' = [wpc EXCEPT ![t] = "done"]
    /\ ylab' = [ylab EXCEPT ![t] = NullLab]
    /\ olab' = [olab EXCEPT ![t] = NullLab]
    /\ promotedSize' = promotedSize + tPromoted[t]
    /\ UNCHANGED promotionFailed

\* A task leaves run(): make_iterable of both Labs, then its promoted size
\* and promotion failure are merged under the shared mutexes.
TaskExit(t) ==
    /\ wpc' = [wpc EXCEPT ![t] = "done"]
    /\ ylab' = [ylab EXCEPT ![t] = NullLab]
    /\ olab' = [olab EXCEPT ![t] = NullLab]
    /\ promotedSize' = promotedSize + tPromoted[t]
    /\ promotionFailed' = (promotionFailed \/ ofailed[t])

\* Mutant: a task whose pop() failed leaves run() at once, without the
\* Terminator's agreement.
TryTerminateAlone(t) ==
    /\ phase = "trace"
    /\ wpc[t] = "term"
    /\ active' = active - 1
    /\ TaskExit(t)
    /\ UNCHANGED <<seqVars, fwd, copyField, youngTop, oldTop, oldLimit, oldGenLimit,
                   worklist, outVars, cur, fi, refYoung, pend, local, deque, traced,
                   yfailed, ofailed, olimit, tPromoted>>

\* Terminator::try_terminate, first half: leave the set of active workers;
\* the last one to leave has detected termination.
TryTerminate(t) ==
    /\ phase = "trace"
    /\ wpc[t] = "term"
    /\ active' = active - 1
    /\ IF active = 1
       THEN TaskExit(t)
       ELSE /\ wpc' = [wpc EXCEPT ![t] = "wait"]
            /\ UNCHANGED <<ylab, olab, promotedSize, promotionFailed>>
    /\ UNCHANGED <<seqVars, fwd, copyField, youngTop, oldTop, oldLimit, oldGenLimit,
                   worklist, outVars, cur, fi, refYoung, pend, local, deque, traced,
                   yfailed, ofailed, olimit, tPromoted>>

\* Terminator::try_terminate, second half: terminate when nobody is active,
\* otherwise rejoin the active workers and pop again.
AwaitTermination(t) ==
    /\ phase = "trace"
    /\ wpc[t] = "wait"
    /\ IF active = 0
       THEN TaskExit(t) /\ UNCHANGED active
       ELSE /\ active' = active + 1
            /\ wpc' = [wpc EXCEPT ![t] = "pop"]
            /\ UNCHANGED <<ylab, olab, promotedSize, promotionFailed>>
    /\ UNCHANGED <<seqVars, fwd, copyField, youngTop, oldTop, oldLimit, oldGenLimit,
                   worklist, outVars, cur, fi, refYoung, pend, local, deque, traced,
                   yfailed, ofailed, olimit, tPromoted>>

\* The end of collect(): after a promotion failure the forwarding pointers
\* of eden and from-space are removed (vtblptr_repair) and TRUE returned;
\* otherwise the semi-spaces are swapped and the statistics published.
Finish ==
    /\ phase = "trace"
    /\ \A t \in Workers : wpc[t] = "done"
    /\ phase' = "done"
    /\ IF promotionFailed
       THEN /\ fwd' = [o \in Young |-> NoFwd]
            /\ result' = TRUE
            /\ UNCHANGED <<minorPromoted, minorCopied>>
       ELSE /\ result' = FALSE
            /\ minorPromoted' = promotedSize
            /\ minorCopied' = youngTop - YoungStart
            /\ UNCHANGED fwd
    /\ UNCHANGED <<cursor, sub, cardYoung, rootVal, oldField, cards, largeCard,
                   copyField, youngTop, oldTop, oldLimit, oldGenLimit, promotionFailed,
                   promotedSize, worklist, taskVars>>

\* Card tables in which every old or large object holding a young
\* reference sits on a dirty card (the write barrier's guarantee) and no
\* card without objects is dirty (copy_dirty_cards panics on NoRefs).
HasYoungField(x) == \E j \in DOMAIN Field[x] : Field[x][j] # Nil
InitCards ==
    {cs \in [Cards -> CardEntry] :
        \A c \in Cards :
           /\ cs[c] = "dirty" => \E x \in Old : CardOf(OldAddr[x]) = c
           /\ (\E x \in Old : CardOf(OldAddr[x]) = c /\ HasYoungField(x)) => cs[c] = "dirty"}
InitLargeCards ==
    {lc \in [Large -> CardEntry] : \A l \in Large : HasYoungField(l) => lc[l] = "dirty"}

Init ==
    /\ phase = "roots"
    /\ cursor = 1
    /\ sub = 1
    /\ cardYoung = FALSE
    /\ rootVal = [i \in 1 .. Len(Roots) |-> Orig(Roots[i])]
    /\ oldField = [x \in Old \cup Large |-> OrigFields(x)]
    /\ cards \in InitCards
    /\ largeCard \in InitLargeCards
    /\ fwd = [o \in Young |-> NoFwd]
    /\ copyField = [o \in Young |-> <<>>]
    /\ youngTop = YoungStart
    /\ oldTop = InitOldTop
    /\ oldLimit = InitOldLimit
    /\ oldGenLimit = InitOldLimit
    /\ promotionFailed = FALSE
    /\ promotedSize = 0
    /\ worklist = <<>>
    /\ result = FALSE
    /\ minorPromoted = 0
    /\ minorCopied = 0
    /\ wpc = [t \in Workers |-> "pop"]
    /\ cur = [t \in Workers |-> Nil]
    /\ fi = [t \in Workers |-> 1]
    /\ refYoung = [t \in Workers |-> FALSE]
    /\ pend = [t \in Workers |-> [kind |-> "fail", at |-> 0]]
    /\ local = [t \in Workers |-> <<>>]
    /\ deque = [t \in Workers |-> <<>>]
    /\ traced = [t \in Workers |-> 0]
    /\ ylab = [t \in Workers |-> NullLab]
    /\ olab = [t \in Workers |-> NullLab]
    /\ yfailed = [t \in Workers |-> FALSE]
    /\ ofailed = [t \in Workers |-> FALSE]
    /\ olimit = [t \in Workers |-> 0]
    /\ tPromoted = [t \in Workers |-> 0]
    /\ active = NW

\* collect() has returned; nothing is left to do.
Returned == phase = "done" /\ UNCHANGED vars

Collector ==
    \/ VisitRoot \/ CopyOldField \/ NextOldObject \/ CopyLargeField
    \/ NextLargeObject \/ NextPhase \/ StartTrace \/ Finish

Task(t) ==
    \/ Pop(t) \/ PopNone(t) \/ Trace(t) \/ CopyAlloc(t) \/ CopyCas(t)
    \/ TryTerminate(t) \/ AwaitTermination(t)

Next == Collector \/ (\E t \in Workers : Task(t)) \/ Returned

\* The collector thread and every pool thread keep running until they
\* return: weak fairness for each.
Spec == Init /\ [][Next]_vars /\ WF_vars(Collector) /\ \A t \in Workers : WF_vars(Task(t))

(***************************************************************************)
(* Properties                                                              *)
(***************************************************************************)

\* collect() has returned FALSE: the minor collection succeeded.
Swapped == phase = "done" /\ ~result

PendKinds == {"young", "old", "fail"}
TypeOK ==
    /\ phase \in {"roots", "cards", "large", "trace", "done"}
    /\ rootVal \in [1 .. Len(Roots) -> Slot]
    /\ cards \in [Cards -> CardEntry]
    /\ largeCard \in [Large -> CardEntry]
    /\ \A o \in Young : fwd[o] \in {NoFwd, FailFwd} \cup [sp : {"young", "old"}, at : Nat]
    /\ \A o \in Young : copyField[o] \in Seq(Slot)
    /\ worklist \in Seq(Ref)
    /\ result \in BOOLEAN
    /\ wpc \in [Workers -> {"pop", "trace", "cas", "term", "wait", "done"}]
    /\ pend \in [Workers -> [kind : PendKinds, at : Nat]]
    /\ local \in [Workers -> Seq(Ref)]
    /\ deque \in [Workers -> Seq(Ref)]
    /\ active \in 0 .. NW
    /\ promotedSize \in Nat

\* The objects a slot of the heap or of a task can name.
SlotsOf(s) == {s[i] : i \in DOMAIN s} \ {Nil}
LiveCopies == {o \in Young : IsCopy(fwd[o])}
AllRefs ==
    SlotsOf(rootVal)
    \cup UNION {SlotsOf(oldField[x]) : x \in Old \cup Large}
    \cup UNION {SlotsOf(copyField[o]) : o \in LiveCopies}
    \cup SlotsOf(worklist)
    \cup UNION {SlotsOf(local[t]) \cup SlotsOf(deque[t]) : t \in Workers}
    \cup ({cur[t] : t \in Workers} \ {Nil})

\* Objects reachable from the roots and the old and large objects, through
\* the fields of originals (unchanged) and of the copies that hold r.
FieldsAt(r) == IF r.sp = "orig" THEN SlotsOf(OrigFields(r.obj)) ELSE SlotsOf(copyField[r.obj])
RECURSIVE Closure(_)
Closure(S) == LET S2 == S \cup UNION {FieldsAt(r) : r \in S}
              IN  IF S2 = S THEN S ELSE Closure(S2)
Reachable ==
    Closure(SlotsOf(rootVal) \cup UNION {SlotsOf(oldField[x]) : x \in Old \cup Large})

\* Exactly-once copy: while the collection runs, every reference to a copy
\* that any slot, worklist, deque or task holds is the copy installed in
\* the object's header by the winning CAS (copy / promote_object).
CopyRefsCurrent ==
    phase # "done" =>
        \A r \in AllRefs : r.sp # "orig" => IsCopy(fwd[r.obj]) /\ r = CopyRef(r.obj)

\* Liveness preservation: when collect() returns FALSE, nothing reachable
\* is left in eden or from-space: every reachable young object was copied
\* or promoted and every reachable copy has been traced.
Evacuated ==
    Swapped => \A r \in Reachable : r.sp # "orig"

\* Card soundness: when collect() returns FALSE, every old-generation
\* object (pre-existing or promoted in this collection) and every large
\* object holding a reference into the young generation has a dirty card
\* (clean_card_if_no_young_refs and the dirtying of trace_old_object).
CardsSound ==
    Swapped =>
        /\ \A x \in Old :
              (\E r \in SlotsOf(oldField[x]) : IsYoung(r)) => cards[CardOf(OldAddr[x])] = "dirty"
        /\ \A o \in LiveCopies \ ArrayRef :
              (fwd[o].sp = "old" /\ \E r \in SlotsOf(copyField[o]) : IsYoung(r))
                  => cards[CardOf(fwd[o].at)] = "dirty"
        /\ \A l \in Large :
              (\E r \in SlotsOf(oldField[l]) : IsYoung(r)) => largeCard[l] = "dirty"

\* Array card soundness: when collect() returns FALSE, the card of every
\* slot of a promoted reference array that holds a young reference is
\* dirty.  trace_old_object only dirties a card when its walk leaves it
\* (or at the end), so the cards an array spans each need their own write.
ArrayCardsSound ==
    Swapped =>
        \A o \in LiveCopies \cap ArrayRef : \A j \in DOMAIN copyField[o] :
            (fwd[o].sp = "old" /\ IsYoung(copyField[o][j]))
                => cards[CardOf(SlotAddr(CopyRef(o), j))] = "dirty"

\* Terminator safety: a task only leaves run() when no gray object is left
\* in any local buffer or deque and no task is tracing or copying.
TerminationSafe ==
    (\E t \in Workers : wpc[t] = "done") =>
        \A q \in Workers : /\ local[q] = <<>>
                           /\ deque[q] = <<>>
                           /\ wpc[q] \in {"wait", "done"}

\* minor_promoted counts exactly the objects whose promotion won the CAS.
PromotedAccounted ==
    Swapped =>
        minorPromoted = SumFunctionOnSet(Size, {o \in LiveCopies : fwd[o].sp = "old"})

\* Every gray object handed to the tasks is eventually traced: from some
\* point on no worklist, buffer or deque holds one and no task traces one.
NoGray ==
    /\ phase \in {"trace", "done"}
    /\ worklist = <<>>
    /\ \A t \in Workers : local[t] = <<>> /\ deque[t] = <<>> /\ wpc[t] \notin {"trace", "cas"}
GrayDrained == <>[]NoGray

\* No two destinations alias: the words of any two live copies in the same
\* generation are disjoint (the undo-on-CAS-loss of copy and promote_object
\* is meant to keep each Lab dense without handing out a word twice).
CopyWords(o) == fwd[o].at .. (fwd[o].at + Size[o] - 1)
CopiesDisjoint ==
    \A o1, o2 \in LiveCopies :
        (o1 # o2 /\ fwd[o1].sp = fwd[o2].sp) => CopyWords(o1) \cap CopyWords(o2) = {}

\* The scenario of spec section 8: minor_copied, published when collect()
\* returns FALSE, is the number of bytes copied into the young generation.
MinorCopiedExact ==
    Swapped => minorCopied = SumFunctionOnSet(Size, {o \in LiveCopies : fwd[o].sp = "young"})

\* Promotion-failure safety: when collect() returns TRUE every live young
\* object is either at its original address or at one consistent copy, so
\* no object is reachable both at its original and at a copy.
FailureConsistent ==
    (phase = "done" /\ result) =>
        \A r1, r2 \in Reachable : r1.obj = r2.obj => r1 = r2

(***************************************************************************)
(* Refinement of MinorForwarding: the header of each young object is its  *)
(* forwarding state, the failure is promotion_failed, and collect() has    *)
(* returned in phase "done".                                              *)
(***************************************************************************)
Forwarding == INSTANCE MinorForwarding
                  WITH hdr <- [o \in Young |-> fwd[o].sp], failed <- promotionFailed,
                       done <- phase = "done", res <- result

\* The collection implements MinorForwarding: the CAS of copy() lets only
\* one task, or the sequential copy, forward a header; promotion_failed
\* is never cleared; and the value collect() returns agrees with the
\* failure markers the tasks installed (a task that installs one has set
\* old_alloc.failed, which it merges into promotion_failed on exit), with
\* remove_forwarding_pointers repairing every header after a failure.
RefinesForwarding == Forwarding!ASpec
====

----------------------------- MODULE FlatLister -----------------------------
(***************************************************************************)
(* Recursive listing on a service that lists one directory at a time, and  *)
(* the recursive delete built on it (core/src/layers/simulate.rs):         *)
(*                                                                         *)
(*   list:   user Lister > RetryWrapper > CompleteLister > PrefixLister >  *)
(*           FlatLister > PageLister                                       *)
(*   delete: RetryWrapper > SimulateDeleter > PrefixLister > FlatLister >  *)
(*           PageLister, every entry deleted as soon as it is listed       *)
(*                                                                         *)
(* A path is the sequence of its names, the listed directory is <<>>.  The *)
(* service is external: it hands the content of a directory, the directory *)
(* itself included, out in pages of any size and order; requests fail for  *)
(* a while ("temp") or for good ("perm"); some directories may not be      *)
(* listed; another client removes entries at any time.  Of a directory     *)
(* that is gone some services go on handing out pages, others answer       *)
(* NotFound to every request (lister.rs:73 of lakefs, ipfs backend.rs:203).*)
(***************************************************************************)
EXTENDS Naturals, Sequences, SequencesExt

CONSTANTS Dirs, Files,
          None,       \* Option::None
          Matches,    \* entries whose path starts with the listed prefix
          Denied,     \* directories that may not be listed
          MaxTimes,   \* max_times of the backoff builder
          MaxErrors,  \* bound: failures of the service
          MaxGone     \* bound: entries that another client removes

Root == << >>
Entries == Dirs \cup Files
Parent(e) == Front(e)
Children(d) == {e \in Entries \ {Root} : Parent(e) = d}
Under(d) == {e \in Entries : IsPrefix(d, e)}
Names == UNION {ToSet(e) : e \in Entries}

\* What a PageLister is: the directory, the entries of the page at hand, the
\* ones the service has not put into a page yet, and whether it said it is done.
Listers == {l \in [dir : Dirs, buf : SUBSET Entries, rest : SUBSET Entries,
                   done : BOOLEAN] : l.buf \cup l.rest \subseteq Children(l.dir) \cup {l.dir}}

\* The entries are a tree of paths: what lies above an entry are directories.
ASSUME TreeAssumption ==
  /\ Root \in Dirs /\ Dirs \cap Files = {}
  /\ Entries \subseteq Seq(Names)
  /\ \A e \in Entries : \A k \in 0..(Len(e) - 1) : SubSeq(e, 1, k) \in Dirs
  /\ Root \notin Matches /\ \A e \in Matches : e \in Entries /\ Under(e) \subseteq Matches
  /\ Denied \subseteq Dirs /\ None \notin Entries /\ None \notin Listers
  /\ MaxTimes \in Nat /\ MaxErrors \in Nat /\ MaxGone \in Nat

VARIABLES
  mode,      \* "list" or "delete"
  prefixed,  \* the path has no trailing slash: PrefixLister filters
  sized,     \* the service lists files with their length
  forGood,   \* the service answers only NotFound once a directory is gone
  pc,        \* where next() is; "user" between two calls
  nextDir,   \* FlatLister.next_dir
  opening,   \* the directory and lister that next() holds while it opens them
  stack,     \* FlatLister.active_lister
  entry,     \* held by CompleteLister over its stat, or by the delete
  attempt,   \* retries of the call under way
  out,       \* history: what was returned, or deleted since the last restart
  lost,      \* history: entries dropped with an error that was retried
  gone,      \* entries that do not exist any more
  removed,   \* bound: how many of them another client removed
  errors

lister == <<nextDir, opening, stack>>
service == <<gone, removed, errors>>
vars == <<mode, prefixed, sized, forGood, pc, lister, entry, attempt, out, lost, service>>
settings == <<mode, prefixed, sized, forGood>>

\* FlatLister::new and PageLister::new; `rest` is what the service has not
\* put into a page yet.
NewLister(d) == [dir |-> d, buf |-> {}, rest |-> Children(d) \cup {d}, done |-> FALSE]

Init ==
  /\ mode \in {"list", "delete"} /\ prefixed \in BOOLEAN /\ sized \in BOOLEAN
  /\ forGood \in BOOLEAN
  /\ pc = "loop"
  /\ nextDir = Root /\ opening = None /\ stack = << >>
  /\ entry = None /\ attempt = 0
  /\ out = << >> /\ lost = {} /\ gone = {} /\ removed = 0 /\ errors = 0

---------------------------------------------------------------------------
(* The layers above FlatLister.                                            *)

Kinds == {"temp", "perm"}
ServiceFails == errors < MaxErrors /\ errors' = errors + 1 /\ UNCHANGED <<gone, removed>>

\* Mutant: a repeated delete goes on with the lister of the failed one.
FailResumes(kind, dropped) ==
  \/ /\ kind = "temp" /\ attempt < MaxTimes
     /\ attempt' = attempt + 1
     /\ pc' = "loop" /\ opening' = None
     /\ lost' = lost \cup dropped
     /\ UNCHANGED <<nextDir, stack, out>>
  \/ /\ ~(kind = "temp" /\ attempt < MaxTimes)
     /\ pc' = "errored" /\ opening' = None
     /\ UNCHANGED <<nextDir, stack, out, attempt, lost>>

\* Mutant: the attempts are not counted.
FailForever(kind, dropped) ==
  \/ /\ kind = "temp"
     /\ attempt' = attempt + 1
     /\ pc' = "loop" /\ opening' = None
     /\ lost' = lost \cup dropped
     /\ UNCHANGED <<nextDir, stack, out>>
  \/ /\ kind # "temp"
     /\ pc' = "errored" /\ opening' = None
     /\ UNCHANGED <<nextDir, stack, out, attempt, lost>>

\* The call returns an error, and what it held (`dropped`) goes with it.  A
\* temporary error is followed by another attempt: next() on the same lister,
\* or the whole recursive delete with a new one.  Without another attempt the
\* user's Lister is errored for good.
Fail(kind, dropped) ==
  \/ /\ kind = "temp" /\ attempt < MaxTimes
     /\ attempt' = attempt + 1
     /\ pc' = "loop" /\ opening' = None
     /\ \/ /\ mode = "list"
           /\ lost' = lost \cup dropped
           /\ UNCHANGED <<nextDir, stack, out>>
        \/ /\ mode = "delete"
           /\ nextDir' = Root /\ stack' = << >> /\ out' = << >>
           /\ UNCHANGED lost
  \/ /\ ~(kind = "temp" /\ attempt < MaxTimes)
     /\ pc' = "errored" /\ opening' = None
     /\ UNCHANGED <<nextDir, stack, out, attempt, lost>>

\* PrefixLister, then CompleteLister or SimulateDeleter, on an entry that
\* FlatLister returns.  A file without a length is stat'ed first.
Emit(v) ==
  \/ /\ prefixed /\ v \notin Matches
     /\ pc' = "loop"
     /\ UNCHANGED <<entry, attempt, out>>
  \/ /\ prefixed => v \in Matches
     /\ \/ /\ mode = "list" /\ (v \in Dirs \/ sized)
           /\ out' = Append(out, v)
           /\ pc' = "user" /\ attempt' = 0
           /\ UNCHANGED entry
        \/ /\ mode = "list" /\ v \in Files /\ ~sized
           /\ entry' = v /\ pc' = "stat"
           /\ UNCHANGED <<attempt, out>>
        \/ /\ mode = "delete"
           /\ entry' = v /\ pc' = "delete"
           /\ UNCHANGED <<attempt, out>>

StatOk ==
  /\ pc = "stat" /\ entry \notin gone
  /\ out' = Append(out, entry)
  /\ pc' = "user" /\ attempt' = 0 /\ entry' = None
  /\ UNCHANGED <<settings, lister, lost, service>>

\* The file was deleted after it was listed: it is left out.
StatNotFound ==
  /\ pc = "stat" /\ entry \in gone
  /\ pc' = "loop" /\ entry' = None
  /\ UNCHANGED <<settings, lister, attempt, out, lost, service>>

StatFails(kind) ==
  /\ pc = "stat"
  /\ ServiceFails
  /\ Fail(kind, {entry}) /\ entry' = None
  /\ UNCHANGED settings

\* The service deletes a file or an empty directory, or one that is gone.
DeleteOk ==
  /\ pc = "delete"
  /\ Children(entry) \subseteq gone
  /\ gone' = gone \cup {entry}
  /\ out' = Append(out, entry)
  /\ pc' = "loop" /\ entry' = None
  /\ UNCHANGED <<settings, lister, attempt, lost, removed, errors>>

DeleteNotEmpty ==
  /\ pc = "delete"
  /\ ~(Children(entry) \subseteq gone)
  /\ Fail("perm", {entry}) /\ entry' = None
  /\ UNCHANGED <<settings, service>>

DeleteFails(kind) ==
  /\ pc = "delete"
  /\ ServiceFails
  /\ Fail(kind, {entry}) /\ entry' = None
  /\ UNCHANGED settings

\* The user asks for the next entry.
UserNext ==
  /\ pc = "user"
  /\ pc' = "loop"
  /\ UNCHANGED <<settings, lister, entry, attempt, out, lost, service>>

---------------------------------------------------------------------------
(* FlatLister::next: the directory in next_dir is opened.                  *)

\* Mutant: the directory stays in next_dir.
TakeDirKeeps ==
  /\ pc = "loop" /\ nextDir # None
  /\ opening' = NewLister(nextDir)
  /\ pc' = "list"
  /\ UNCHANGED <<settings, nextDir, stack, entry, attempt, out, lost, service>>

TakeDir ==
  /\ pc = "loop" /\ nextDir # None
  /\ opening' = NewLister(nextDir) /\ nextDir' = None
  /\ pc' = "list"
  /\ UNCHANGED <<settings, stack, entry, attempt, out, lost, service>>

ListOk ==
  /\ pc = "list" /\ opening.dir \notin Denied
  /\ pc' = "first"
  /\ UNCHANGED <<settings, lister, entry, attempt, out, lost, service>>

\* Permission denied, or removed in the meantime: the directory is skipped.
ListSkips ==
  /\ pc = "list"
  /\ opening.dir \in Denied \cup gone
  /\ pc' = "loop" /\ opening' = None
  /\ UNCHANGED <<settings, nextDir, stack, entry, attempt, out, lost, service>>

ListFails(kind) ==
  /\ pc = "list"
  /\ ServiceFails
  /\ Fail(kind, Under(opening.dir))
  /\ UNCHANGED <<settings, entry>>

\* PageLister::next has no entry left and asks the service for a page.  What
\* is gone need not be in any page.
Asks(l) == l.buf = {} /\ ~l.done
Page(l, p, d) == [l EXCEPT !.buf = p, !.rest = @ \ p, !.done = d]
Pages(l) ==
  {l2 \in {Page(l, p, d) : p \in SUBSET l.rest, d \in BOOLEAN} :
     (l2.done => l2.rest \subseteq gone) /\ (l2.buf = {} => l2.done)}

Answers(d) == ~(forGood /\ d \in gone)

FirstPage ==
  /\ pc = "first" /\ Asks(opening) /\ Answers(opening.dir)
  /\ opening' \in Pages(opening)
  /\ UNCHANGED <<settings, pc, nextDir, stack, entry, attempt, out, lost, service>>

\* NotFound: the inner loop asks again, as often as it gets this answer.
FirstNotFound ==
  /\ pc = "first" /\ Asks(opening)
  /\ opening.dir \in gone
  /\ UNCHANGED vars

FirstFails(kind) ==
  /\ pc = "first" /\ Asks(opening)
  /\ ServiceFails
  /\ Fail(kind, Under(opening.dir))
  /\ UNCHANGED <<settings, entry>>

\* Without any entry the directory is not returned either.
FirstNone ==
  /\ pc = "first" /\ opening.buf = {} /\ opening.done
  /\ pc' = "loop" /\ opening' = None
  /\ UNCHANGED <<settings, nextDir, stack, entry, attempt, out, lost, service>>

\* Mutant: a directory found first replaces the one that was opened.
FirstEntryDescends(v) ==
  /\ pc = "first" /\ v \in opening.buf
  /\ opening' = None
  /\ \/ /\ v \in Dirs
        /\ nextDir' = IF v = opening.dir THEN None ELSE v
        /\ stack' = IF v = opening.dir THEN stack ELSE
                    Append(stack, [de |-> opening.dir, l |-> [opening EXCEPT !.buf = @ \ {v}]])
        /\ pc' = "loop"
        /\ UNCHANGED <<entry, attempt, out>>
     \/ /\ v \in Files
        /\ Emit(v)
        /\ UNCHANGED <<stack, nextDir>>
  /\ UNCHANGED <<settings, lost, service>>

FirstEntry(v) ==
  /\ pc = "first" /\ v \in opening.buf
  /\ stack' = Append(stack, [de |-> opening.dir, l |-> [opening EXCEPT !.buf = @ \ {v}]])
  /\ opening' = None
  /\ \/ /\ v \in Dirs
        /\ nextDir' = IF v = opening.dir THEN None ELSE v
        /\ pc' = "loop"
        /\ UNCHANGED <<entry, attempt, out>>
     \/ /\ v \in Files
        /\ Emit(v)
        /\ UNCHANGED nextDir
  /\ UNCHANGED <<settings, lost, service>>

---------------------------------------------------------------------------
(* FlatLister::next: the innermost open directory is continued.            *)

Top == Last(stack)
AtTop == pc = "loop" /\ nextDir = None /\ stack # << >> /\ Top.de # None
SetTop(t) == stack' = [stack EXCEPT ![Len(stack)] = t]

\* Nothing is open any more: next() returns None, the delete returns Ok.
Ends ==
  /\ pc = "loop" /\ nextDir = None /\ stack = << >>
  /\ pc' = IF mode = "list" THEN "none" ELSE "deleted"
  /\ UNCHANGED <<settings, lister, entry, attempt, out, lost, service>>

\* Mutant: the finished lister stays.
PopKeeps ==
  /\ pc = "loop" /\ nextDir = None /\ stack # << >> /\ Top.de = None
  /\ UNCHANGED vars

\* The directory of the top was returned before.
Pop ==
  /\ pc = "loop" /\ nextDir = None /\ stack # << >> /\ Top.de = None
  /\ stack' = Front(stack)
  /\ UNCHANGED <<settings, pc, nextDir, opening, entry, attempt, out, lost, service>>

TopPage ==
  /\ AtTop /\ Asks(Top.l) /\ Answers(Top.de)
  /\ \E l \in Pages(Top.l) : SetTop([Top EXCEPT !.l = l])
  /\ UNCHANGED <<settings, pc, nextDir, opening, entry, attempt, out, lost, service>>

\* NotFound: the loop comes back to the same lister.
TopNotFound ==
  /\ AtTop /\ Asks(Top.l)
  /\ Top.de \in gone
  /\ UNCHANGED vars

\* The lister stays and is asked again by the next attempt.
TopFails(kind) ==
  /\ AtTop /\ Asks(Top.l)
  /\ ServiceFails
  /\ Fail(kind, {})
  /\ UNCHANGED <<settings, entry>>

TopEntry(v) ==
  /\ AtTop /\ v \in Top.l.buf
  /\ SetTop([Top EXCEPT !.l.buf = @ \ {v}])
  /\ \/ /\ v \in Dirs
        /\ nextDir' = IF v = Top.de THEN None ELSE v
        /\ pc' = "loop"
        /\ UNCHANGED <<entry, attempt, out>>
     \/ /\ v \in Files
        /\ Emit(v)
        /\ UNCHANGED nextDir
  /\ UNCHANGED <<settings, opening, lost, service>>

\* All of it was listed: the directory itself is returned.
TopDone ==
  /\ AtTop /\ Top.l.buf = {} /\ Top.l.done
  /\ SetTop([Top EXCEPT !.de = None])
  /\ Emit(Top.de)
  /\ UNCHANGED <<settings, nextDir, opening, lost, service>>

---------------------------------------------------------------------------
\* Another client removes a file or a whole directory.
RemoveEntry(e) ==
  /\ e \in Entries \ gone
  /\ removed < MaxGone /\ removed' = removed + 1
  /\ gone' = gone \cup Under(e)
  /\ UNCHANGED <<settings, pc, lister, entry, attempt, out, lost, errors>>

Step ==
  \/ TakeDir \/ ListOk \/ ListSkips \/ FirstPage \/ FirstNotFound \/ FirstNone
  \/ Ends \/ Pop \/ TopPage \/ TopNotFound \/ TopDone
  \/ \E v \in Entries : FirstEntry(v) \/ TopEntry(v)
  \/ StatOk \/ StatNotFound \/ DeleteOk \/ DeleteNotEmpty
  \/ UserNext

Failing ==
  \E kind \in Kinds : ListFails(kind) \/ FirstFails(kind) \/ TopFails(kind)
                      \/ StatFails(kind) \/ DeleteFails(kind)

Next == Step \/ Failing \/ \E e \in Entries : RemoveEntry(e)

Spec == Init /\ [][Next]_vars

\* An awaited request ends, and the user goes on until the lister ends.
\* Nothing forces a failure.
FairSpec == Spec /\ WF_vars(Step)

---------------------------------------------------------------------------
(* Properties *)

\* The type of every variable; no call is repeated more than max_times times.
TypeOK ==
  /\ mode \in {"list", "delete"} /\ prefixed \in BOOLEAN /\ sized \in BOOLEAN
  /\ forGood \in BOOLEAN
  /\ pc \in {"loop", "list", "first", "stat", "delete", "user", "none", "deleted", "errored"}
  /\ nextDir \in Dirs \cup {None}
  /\ opening # None => opening \in Listers
  /\ \A i \in DOMAIN stack : stack[i].de \in {stack[i].l.dir, None} /\ stack[i].l \in Listers
  /\ entry \in Entries \cup {None}
  /\ attempt \in 0..MaxTimes
  /\ \A i \in DOMAIN out : out[i] \in Entries
  /\ lost \subseteq Entries /\ gone \subseteq Entries
  /\ removed \in 0..MaxGone /\ errors \in 0..MaxErrors

\* No entry is returned twice, and none below a directory that was returned:
\* "the nested dirs will show up before parent dirs" (flat_list.rs:52),
\* also when next() failed and was repeated, and when the service lists a
\* directory in several pages or as a part of itself.
OnceNestedFirst ==
  \A i, j \in DOMAIN out : i < j => ~IsPrefix(out[i], out[j])

\* The open directories are a path from the listed one down: none is opened
\* within itself, so there are never more listers than levels
\* (flat_list.rs:61, :135, :167).
StackIsPath ==
  LET path == [i \in DOMAIN stack |-> stack[i].l.dir]
              \o (IF opening = None THEN << >> ELSE <<opening.dir>>)
              \o (IF nextDir = None THEN << >> ELSE <<nextDir>>)
  IN  \A i \in DOMAIN path : Len(path[i]) = i - 1 /\ (i > 1 => Parent(path[i]) = path[i - 1])

\* The walk visits each directory once, from the inside out.
BottomUp == OnceNestedFirst /\ StackIsPath

\* What the lister still has to go through.
Todo(l) == UNION {Under(e) : e \in (l.buf \cup l.rest) \ {l.dir}}
Ahead ==
  ({entry} \ {None})
  \cup (IF opening = None THEN {} ELSE Under(opening.dir))
  \cup (IF nextDir = None THEN {} ELSE Under(nextDir))
  \cup UNION {Todo(stack[i].l) \cup ({stack[i].de} \ {None}) : i \in DOMAIN stack}

Hidden == UNION {Under(d) : d \in Denied}
Wanted == {e \in Entries : prefixed => e \in Matches}

\* Every entry was returned, is still ahead, does not exist any more, is
\* hidden by a denied directory, or was dropped with an error: the walk
\* leaves nothing out on its own, at any moment of any call (flat_list.rs:92).
Accounted ==
  pc # "errored" => Wanted \subseteq ToSet(out) \cup Ahead \cup gone \cup Hidden \cup lost

\* A recursive delete asks for a directory only when everything in it is
\* gone, unless a denied directory is in it: services refuse to delete a
\* directory that is not empty (simulate.rs:241).
DeletesBottomUp ==
  pc = "delete" => (Under(entry) \ {entry}) \subseteq gone \/ Under(entry) \cap Denied # {}

\* A recursive delete that returns Ok has deleted everything it was asked to
\* delete, whatever failed and was repeated: the repeated call lists anew
\* what the failed one left behind (simulate.rs:222).  A denied directory
\* below the listed one is noticed, since the directory around it cannot be
\* deleted.  The listed directory itself, or one at the top of a prefix, has
\* none around it that is deleted: it is passed over in silence.
DeletedMeansGone ==
  pc = "deleted" =>
    Wanted \subseteq gone \cup (IF prefixed \/ Root \in Denied THEN Hidden ELSE {})

\* The recursive delete leaves nothing behind and asks for nothing a service
\* must refuse.
DeletesAll == DeletesBottomUp /\ DeletedMeansGone

\* "Lister will return `None` if there is no more entries or error has been
\* returned" (types/list.rs:32).
NoneMeansListed == pc = "none" => Wanted \subseteq ToSet(out) \cup gone \cup Hidden

Ended == pc \in {"none", "deleted", "errored"}

\* The loops over NotFound (flat_list.rs:116-129, :155-163) have no bound: they
\* go round for ever on a directory that is gone for good.
Spinning ==
  \/ pc = "first" /\ Asks(opening) /\ ~Answers(opening.dir)
  \/ AtTop /\ Asks(Top.l) /\ ~Answers(Top.de)

\* A listing or a recursive delete ends, also when requests fail for a while,
\* directories list themselves and entries disappear; only the loops over
\* NotFound keep it from ending.
ListingEnds == <>Ended \/ <>[]Spinning

\* "Skip entries that are deleted during listing" (flat_list.rs:120): the
\* listing goes on to its end.  False where the service answers NotFound for
\* good: the directory is not skipped but asked again.
SkipsTheDeleted == <>Ended
=============================================================================

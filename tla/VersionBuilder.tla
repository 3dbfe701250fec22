--------------------------- MODULE VersionBuilder ----------------------------
(***************************************************************************)
(* How a version gets its files (main/versionset.cpp).  Version::apply     *)
(* adds the tables of one compaction at the end of level 0; the class      *)
(* VersionSet::Builder, which has no caller, merges any number of edits    *)
(* into a copy of a base version.  It is driven here as its own comments   *)
(* imply: edits made in memory by AddFile and DeleteFile after one that    *)
(* was read from a record (module VersionEdit), then SaveTo, then the end  *)
(* of the Builder and AppendVersion in either order.                       *)
(*                                                                         *)
(* A FileMetaData is a place in heap.  Its unref does nothing at 0, the    *)
(* Builder's destructor deletes.                                           *)
(***************************************************************************)
EXTENDS VersionEdit, Comparator

CONSTANTS
  Recorded,     \* bound: the records of Edits that versions are built from
  EditLevels,   \* bound: levels of edits made in memory
  KeyRanges,    \* bound: first and last entry of their files
  MaxEdits,     \* bound: edits made in memory
  MaxBuilders   \* bound: Builders one after the other

(* The first and the last entry of a table.                                *)
Ranged(e1, e2) == {e1.key, e2.key} \subseteq Bytes /\ LessEq(e1.key, e2.key)

ASSUME VersionBuilderAssumption ==
  /\ Recorded \subseteq Edits
  /\ EditLevels \subseteq 0 .. kMaxLevel - 1
  /\ \A r \in KeyRanges : Ranged(r[1], r[2])
  /\ \A e \in Recorded : \A i \in DOMAIN e.new_files_ :
       Ranged(e.new_files_[i].file.smallest, e.new_files_[i].file.largest)
  /\ MaxEdits \in Nat /\ MaxBuilders \in Nat

VARIABLES
  heap,       \* the FileMetaData objects: the file, refs, whether deleted
  versions,   \* every version: files_, ref_
  current_,   \* VersionSet::current_
  builder,    \* the Builder; v is the version SaveTo filled, 0 before
  edits,      \* edits made in memory
  builders,   \* Builders constructed
  wanted      \* per level, the files the edits given to the Builder ask for

fileVars == <<heap, versions, current_>>
builderVars == <<heap, versions, current_, builder, edits, builders, wanted>>

Level == 0 .. kMaxLevel - 1
PerLevel(x) == [level \in Level |-> x]
NoBuilder == [phase |-> "none", base_ |-> 0, deleted_files |-> PerLevel({}),
              added_files |-> PerLevel(<<>>), v |-> 0, installed |-> FALSE]

BuilderInit ==
  /\ Init
  /\ heap = <<>>
  /\ versions = <<[files_ |-> PerLevel(<<>>), ref_ |-> 1]>>
  /\ current_ = 1
  /\ builder = NoBuilder
  /\ edits = 0 /\ builders = 0
  /\ wanted = PerLevel({})
-----------------------------------------------------------------------------
file(o) == heap[o].file
FilesOf(files) == {file(o) : o \in ToSet(files)}
Places(files, o) ==
  UNION {{<<level, i>> : i \in {j \in DOMAIN files[level] : files[level][j] = o}} : level \in Level}
Occurrences(files, o) == Cardinality(Places(files, o))

(* BySmallestKey, ties broken by number.                                   *)
BySmallestKey(f1, f2) ==
  \/ Less(f1.smallest.key, f2.smallest.key)
  \/ f1.smallest.key = f2.smallest.key /\ f1.number < f2.number

(* A version counts each of its files (a variant leaves that to the        *)
(* Builder).                                                               *)
countedNot(h, files) == h
counted(h, files) == [o \in DOMAIN h |-> [h[o] EXCEPT !.refs = @ + Occurrences(files, o)]]

(* What Version::Unref leaves of the versions and of the files' counters.  *)
VersionUnref(vs, v) == [vs EXCEPT ![v].ref_ = @ - 1]
FilesUnref(h, vs, v) ==
  IF vs[v].ref_ > 1 THEN h
  ELSE [o \in DOMAIN h |-> [h[o] EXCEPT !.refs = @ - Occurrences(vs[v].files_, o)]]
-----------------------------------------------------------------------------
(* What DecodeFrom made of a record: the levels, each with the one f.      *)
DecodedEdit ==
  [decoded EXCEPT !.new_files_ =
     [i \in DOMAIN decoded.new_files_ |-> [level |-> decoded.new_files_[i], file |-> f]]]

(* What the record's writer meant, for edits of one new file at most.      *)
Meant == IF Len(edit.new_files_) <= 1 THEN edit ELSE DecodedEdit

(* Edits made in memory: a table of a new number, in place of another or   *)
(* not; or a table moved to the next level.                                *)
Known ==
  UNION {{<<level, file(o).number>> :
            o \in ToSet(versions[current_].files_[level]) \cup ToSet(builder.added_files[level])} :
           level \in Level}
NextNumber == 1 + Max({0} \cup {file(o).number : o \in DOMAIN heap})
NewFileEdit(level, r, deleted) ==
  [Clear EXCEPT
     !.deleted_files_ = deleted,
     !.new_files_ = <<[level |-> level,
                       file |-> [number |-> NextNumber, file_size |-> 1,
                                 smallest |-> r[1], largest |-> r[2]]]>>]
MoveEdit(level, o) ==
  [Clear EXCEPT !.deleted_files_ = {<<level, file(o).number>>},
                !.new_files_ = <<[level |-> level + 1, file |-> file(o)]>>]

MemoryEdits ==
  {NewFileEdit(x[1], x[2], x[3]) :
     x \in EditLevels \X KeyRanges \X {D \in SUBSET Known : Cardinality(D) <= 1}}
  \cup {MoveEdit(x[1], x[2]) :
          x \in {y \in EditLevels \X DOMAIN heap :
                   /\ y[1] + 1 \in EditLevels /\ <<y[1] + 1, file(y[2]).number>> \notin Known
                   /\ y[2] \in ToSet(versions[current_].files_[y[1]])}}

(* The reference: an edit takes its deleted files away, then adds its own. *)
After1(files, e) ==
  [level \in Level |->
     {x \in files[level] : <<level, x.number>> \notin e.deleted_files_}
       \cup {e.new_files_[i].file : i \in {j \in DOMAIN e.new_files_ :
                                             e.new_files_[j].level = level}}]
-----------------------------------------------------------------------------
(* Version::apply in a new version, which AppendVersion makes current: the *)
(* edit's own objects go to the end of level 0, other levels' are ignored, *)
(* and every file is counted.                                              *)
apply(r) ==
  /\ builder.phase = "none" /\ builders > 0 /\ edits < MaxEdits
  /\ LET o == [file |-> NewFileEdit(0, r, {}).new_files_[1].file, refs |-> 0, deleted |-> FALSE]
         files == [versions[current_].files_ EXCEPT ![0] = Append(@, Len(heap) + 1)]
     IN /\ heap' = FilesUnref(counted(Append(heap, o), files), versions, current_)
        /\ versions' = Append(VersionUnref(versions, current_), [files_ |-> files, ref_ |-> 1])
        /\ current_' = Len(versions) + 1
  /\ edits' = edits + 1
  /\ UNCHANGED <<builder, builders, wanted>>

Builder ==
  /\ msg = "done" /\ cut = 0 /\ edit \in Recorded
  /\ builder.phase = "none" /\ builders < MaxBuilders
  /\ builder' = [NoBuilder EXCEPT !.phase = "open", !.base_ = current_]
  /\ versions' = [versions EXCEPT ![current_].ref_ = @ + 1]
  /\ wanted' = [level \in Level |-> FilesOf(versions[current_].files_[level])]
  /\ builders' = builders + 1
  /\ UNCHANGED <<heap, current_, edits>>

(* The set of added files is ordered, and keeps one of two that compare    *)
(* equal.                                                                  *)
insert(files, o, h) ==
  IF \E i \in DOMAIN files : h[files[i]].file.number = h[o].file.number
                             /\ h[files[i]].file.smallest.key = h[o].file.smallest.key
  THEN files
  ELSE InsertAt(files, 1 + Cardinality({i \in DOMAIN files :
                                          BySmallestKey(h[files[i]].file, h[o].file)}), o)

(* Apply: deletions first, then each new file as a copy with one           *)
(* reference, which is wanted again if its number was deleted.             *)
insertNew(files, at, n, h) ==
  LET s[i \in 0 .. n] == IF i = 0 THEN files
                         ELSE IF i \in at THEN insert(s[i - 1], Len(heap) + i, h) ELSE s[i - 1]
  IN s[n]

Apply(e) ==
  LET h == heap \o [i \in DOMAIN e.new_files_ |->
                      [file |-> e.new_files_[i].file, refs |-> 1, deleted |-> FALSE]]
      at(level) == {i \in DOMAIN e.new_files_ : e.new_files_[i].level = level}
  IN /\ heap' = h
     /\ builder' =
          [builder EXCEPT
             !.deleted_files =
               [level \in Level |->
                  (@[level] \cup {d[2] : d \in {x \in e.deleted_files_ : x[1] = level}})
                    \ {e.new_files_[i].file.number : i \in at(level)}],
             !.added_files =
               [level \in Level |-> insertNew(@[level], at(level), Len(e.new_files_), h)]]

(* The recorded edit first, then edits made in memory.                     *)
applyRecord ==
  /\ builder.phase = "open" /\ builders = 1 /\ edits = 0 /\ heap = <<>>
  /\ Apply(DecodedEdit)
  /\ wanted' = After1(wanted, Meant)
  /\ edits' = 1
  /\ UNCHANGED <<versions, current_, builders>>

applyEdit ==
  /\ builder.phase = "open" /\ edits \in 1 .. MaxEdits - 1
  /\ \E e \in MemoryEdits : Apply(e) /\ wanted' = After1(wanted, e)
  /\ edits' = edits + 1
  /\ UNCHANGED <<versions, current_, builders>>
-----------------------------------------------------------------------------
(* MaybeAddFile on the files saved so far at a level: a deleted file is    *)
(* left out; above level 0 the assert asks for the last one to end before  *)
(* (a variant asks nothing).                                               *)
EndsBefore(files, o) == files # <<>> => Less(file(files[Len(files)]).largest.key,
                                             file(o).smallest.key)
MaybeAddFileUnchecked(s, level, o) ==
  IF file(o).number \in builder.deleted_files[level] THEN s
  ELSE [s EXCEPT !.files = Append(@, o)]
MaybeAddFile(s, level, o) ==
  IF file(o).number \in builder.deleted_files[level] THEN s
  ELSE [files |-> Append(s.files, o), ok |-> s.ok /\ (level > 0 => EndsBefore(s.files, o))]

(* std::upper_bound of x in files from place first on: bisection, whose    *)
(* rounds are fewer than the files.  In a level 0 that apply filled, which *)
(* is in no order, it ends somewhere.                                      *)
halve(files, x, r) ==
  LET half == r.len \div 2
  IN IF r.len = 0 THEN r
     ELSE IF BySmallestKey(file(x), file(files[r.first + half])) THEN [r EXCEPT !.len = half]
     ELSE [first |-> r.first + half + 1, len |-> r.len - half - 1]
upper_bound(files, first, x) ==
  LET r[k \in 0 .. Len(files)] ==
        IF k = 0 THEN [first |-> first, len |-> Len(files) + 1 - first]
        ELSE halve(files, x, r[k - 1])
  IN r[Len(files)].first

(* SaveTo at one level: the base files up to each added file, that file,   *)
(* and in the end the base files that remain (a variant forgets them).     *)
AddAll(s, level, files) ==
  LET t[i \in 0 .. Len(files)] == IF i = 0 THEN s ELSE MaybeAddFile(t[i - 1], level, files[i])
  IN t[Len(files)]
addUpTo(s, level, base, o) ==
  LET bpos == upper_bound(base, s.iter, o)
      t == AddAll([files |-> s.files, ok |-> s.ok], level,
                  Append(SubSeq(base, s.iter, bpos - 1), o))
  IN [files |-> t.files, ok |-> t.ok, iter |-> bpos]
saveAdded(level) ==
  LET base == versions[builder.base_].files_[level]
      added == builder.added_files[level]
      s[i \in 0 .. Len(added)] ==
        IF i = 0 THEN [files |-> <<>>, ok |-> TRUE, iter |-> 1]
        ELSE addUpTo(s[i - 1], level, base, added[i])
  IN s[Len(added)]

saveLevelAdded(level) ==
  LET s == saveAdded(level) IN [files |-> s.files, ok |-> s.ok]
saveLevel(level) ==
  LET base == versions[builder.base_].files_[level]
      s == saveAdded(level)
  IN AddAll([files |-> s.files, ok |-> s.ok], level, SubSeq(base, s.iter, Len(base)))

SaveTo ==
  /\ builder.phase = "open" /\ edits > 0
  /\ LET saved == [level \in Level |-> saveLevel(level)]
         files == [level \in Level |-> saved[level].files]
     IN \/ /\ \A level \in Level : saved[level].ok
           /\ heap' = counted(heap, files)
           /\ versions' = Append(versions, [files_ |-> files, ref_ |-> 0])
           /\ builder' = [builder EXCEPT !.phase = "saved", !.v = Len(versions) + 1]
        \/ /\ \E level \in Level : ~saved[level].ok
           /\ builder' = [builder EXCEPT !.phase = "aborted"]
           /\ UNCHANGED <<heap, versions>>
  /\ UNCHANGED <<current_, edits, builders, wanted>>

(* AppendVersion may release the base version, or leave that to the        *)
(* Builder.                                                                *)
AppendVersion ==
  /\ builder.v # 0 /\ ~builder.installed
  /\ heap' = FilesUnref(heap, versions, current_)
  /\ versions' = [VersionUnref(versions, current_) EXCEPT ![builder.v].ref_ = 1]
  /\ current_' = builder.v
  /\ builder' = IF builder.phase = "deleted" THEN NoBuilder
                ELSE [builder EXCEPT !.installed = TRUE]
  /\ UNCHANGED <<edits, builders, wanted>>

(* ~Builder: an added file that no version took is deleted.                *)
released(h) ==
  [o \in DOMAIN h |->
     LET n == Occurrences(builder.added_files, o)
     IN [h[o] EXCEPT !.refs = @ - n, !.deleted = @ \/ (n > 0 /\ h[o].refs - n <= 0)]]

deleteBuilder ==
  /\ builder.phase = "saved"
  /\ heap' = FilesUnref(released(heap), versions, builder.base_)
  /\ versions' = VersionUnref(versions, builder.base_)
  /\ builder' = IF builder.installed THEN NoBuilder ELSE [builder EXCEPT !.phase = "deleted"]
  /\ UNCHANGED <<current_, edits, builders, wanted>>

edit_step == Next /\ UNCHANGED builderVars
version_step(A) == A /\ UNCHANGED vars

BuilderNext ==
  \/ edit_step
  \/ version_step(Builder) \/ version_step(applyRecord) \/ version_step(applyEdit)
  \/ version_step(SaveTo) \/ version_step(AppendVersion) \/ version_step(deleteBuilder)
  \/ \E r \in KeyRanges : version_step(apply(r))

BuilderSpec == BuilderInit /\ [][BuilderNext]_<<vars, builderVars>>
-----------------------------------------------------------------------------
Overlap(x, y) == LessEq(x.smallest.key, y.largest.key) /\ LessEq(y.smallest.key, x.largest.key)
Disjoint(files) == \A x, y \in files : x # y => ~Overlap(x, y)

(* The Builder saves what its edits ask for, each file once, above level 0 *)
(* in the order of the keys, whatever order they and the base came in; it  *)
(* aborts only when files above level 0 overlap.                           *)
SavedAsEdited ==
  /\ builder.phase = "saved" =>
       LET files == versions[builder.v].files_
       IN \A level \in Level :
            /\ FilesOf(files[level]) = wanted[level]
            /\ Len(files[level]) = Cardinality(wanted[level])
            /\ level > 0 => \A i \in 1 .. Len(files[level]) - 1 :
                              Less(file(files[level][i]).largest.key,
                                   file(files[level][i + 1]).smallest.key)
  /\ builder.phase = "aborted" => \E level \in Level \ {0} : ~Disjoint(wanted[level])

(* A file of a version that is still held was not deleted, and its counter *)
(* is the number of those versions plus one for a Builder that added it:   *)
(* no order of the releases frees a file too early.                        *)
Live == {v \in DOMAIN versions : versions[v].ref_ > 0 \/ (v = builder.v /\ ~builder.installed)}

Held(o) == UNION {{<<v, x>> : x \in Places(versions[v].files_, o)} : v \in Live}
Added(o) ==
  IF builder.phase \in {"open", "saved", "aborted"} THEN Occurrences(builder.added_files, o) ELSE 0

FilesAreCounted ==
  \A v \in Live, level \in Level : \A o \in ToSet(versions[v].files_[level]) :
    ~heap[o].deleted /\ heap[o].refs = Cardinality(Held(o)) + Added(o)

(* Version::Get's files for a key: every one of level 0 that may have it,  *)
(* above that the first.                                                   *)
mayInFile(o, key) == LessEq(file(o).smallest.key, key) /\ LessEq(key, file(o).largest.key)
search_list(v, key) ==
  UNION {LET files == versions[v].files_[level]
             hits == {i \in DOMAIN files : mayInFile(files[i], key)}
         IN {files[i] : i \in IF level = 0 \/ hits = {} THEN hits ELSE {Min(hits)}} :
           level \in Level}

(* "only one file in each level may contain the key" (versionset.cpp:87):  *)
(* the files a get would read are all that may hold its key.               *)
SearchListIsComplete ==
  \A key \in UNION {{r[1].key, r[2].key} : r \in KeyRanges} :
    search_list(current_, key) =
      {o \in DOMAIN heap : mayInFile(o, key)
                           /\ \E level \in Level : o \in ToSet(versions[current_].files_[level])}
=============================================================================

------------------------------ MODULE FixtureSet ------------------------------
(***************************************************************************)
(* The set of fixtures and its files: the set manager of the command line  *)
(* (add, delete, save, load), FixtureManager, and how a FixtureProfile is  *)
(* checked, written and read.  The set manager runs while the server is    *)
(* stopped; the process may end at any point and start again, and it       *)
(* starts only with a default set it can load.                             *)
(***************************************************************************)
EXTENDS Integers, FiniteSets, SequencesExt

CONSTANTS
  SIZE,           \* addresses of a DMX universe, 512 in the code
  Files, Default, \* the names of set files, and default.set
  MaxFixtures     \* bound of the model on the fixtures of a set

ASSUME FixtureSetAssumption ==
  SIZE \in Nat \ {0} /\ Default \in Files /\ MaxFixtures \in Nat

NoFile == [count |-> -2, objects |-> <<>>]
NoCount == -1    \* the file ends before the number of its fixtures

VARIABLES
  program,       \* "down", "menu", "save", or "exit" when the default set does not load
  set,           \* FixtureManager.set: per fixture its address, its channels, and whether
                 \* one of them is a colour (defaultColorOffs # -1)
  files,         \* per name the number of fixtures and the fixtures the file has
  target,        \* the file that is being saved
  saved          \* ghost: per name the set whose saving began last

setVars == <<program, set, files, target, saved>>

-----------------------------------------------------------------------------
(* FixtureProfile *)

\* The fixture of addProfileToSetCLI for an address and a number of distinct names: the
\* word "done" is added to the names like any other, if there is room for it.
Entered(address, typed, colour) ==
  [address |-> address,
   channels |-> IF typed < SIZE THEN typed + 1 ELSE SIZE, colour |-> colour]

\* The checks of the constructor.  The upper bound is that of the field address, still 0.
Accepted(f) == f.address >= 1 /\ f.channels \in 1 .. SIZE /\ f.channels + 0 <= SIZE + 1

\* The checks of readObject
Readable(f) == f.colour /\ f.channels + f.address <= SIZE + 1

-----------------------------------------------------------------------------
(* FixtureManager *)

\* Collections.sort by address, which is stable: the fixture of place p has p - 1
\* fixtures before it.
Before(s, i, j) == s[i].address < s[j].address \/ (s[i].address = s[j].address /\ i < j)
Rank(s, i) == Cardinality({j \in DOMAIN s : Before(s, j, i)})
Sorted(s) == [p \in DOMAIN s |-> s[CHOOSE i \in DOMAIN s : Rank(s, i) = p - 1]]

\* The constructor reads as many fixtures as the file says and sorts them.
Loadable(file) ==
  /\ file.count \in 0 .. Len(file.objects)
  /\ \A i \in 1 .. file.count : Readable(file.objects[i])
Loaded(file) == Sorted(SubSeq(file.objects, 1, file.count))

\* UserCLI(): the default set, or no process
StartProgram ==
  /\ program = "down"
  /\ IF Loadable(files[Default])
     THEN program' = "menu" /\ set' = Loaded(files[Default])
     ELSE program' = "exit" /\ UNCHANGED set
  /\ UNCHANGED <<files, target, saved>>

\* The process ends: killed, or by an exception that the set manager does not catch (a
\* number outside the list of files).  The set in memory is lost.
End ==
  /\ program \in {"menu", "save"} /\ program' = "down" /\ set' = <<>>
  /\ UNCHANGED <<files, target, saved>>

addFixture ==
  /\ program = "menu" /\ Len(set) < MaxFixtures
  /\ \E address \in 0 .. SIZE + 1, typed \in 0 .. SIZE, colour \in BOOLEAN :
       LET f == Entered(address, typed, colour)
       IN  /\ colour => typed > 0
           /\ Accepted(f)
           /\ set' = Sorted(Append(set, f))
  /\ UNCHANGED <<program, files, target, saved>>

removeFixture ==
  /\ program = "menu"
  /\ \E i \in DOMAIN set : set' = RemoveAt(set, i)
  /\ UNCHANGED <<program, files, target, saved>>

\* saveSetFile: the old file is deleted, a new one made; its header has no number yet.
saveSetFile(name) ==
  /\ program = "menu" /\ program' = "save" /\ target' = name
  /\ \E f \in {NoFile, [NoFile EXCEPT !.count = NoCount]} : files' = [files EXCEPT ![name] = f]
  /\ saved' = [saved EXCEPT ![name] = set]
  /\ UNCHANGED set

\* Mutated form of WriteObject: the number written is that of the fixtures so far.
WriteObjectCounts ==
  LET file == files[target]
  IN  /\ program = "save" /\ Len(file.objects) < Len(set)
      /\ files' = [files EXCEPT ![target] =
                     [count |-> Len(file.objects) + 1,
                      objects |-> Append(file.objects, set[Len(file.objects) + 1])]]
      /\ UNCHANGED <<program, set, target, saved>>

\* writeObject of the next fixture.  The number of fixtures waits in the buffer of the
\* stream and goes to the disk with the first of them.
WriteObject ==
  LET file == files[target]
  IN  /\ program = "save" /\ Len(file.objects) < Len(set)
      /\ files' = [files EXCEPT ![target] =
                     [count |-> Len(set),
                      objects |-> Append(file.objects, set[Len(file.objects) + 1])]]
      /\ UNCHANGED <<program, set, target, saved>>

\* Mutated form of EndSave: the loop over the set ends one fixture early.
EndSaveEarly ==
  /\ program = "save" /\ Len(files[target].objects) + 1 >= Len(set)
  /\ program' = "menu"
  /\ files' = IF files[target] = NoFile
              THEN [files EXCEPT ![target].count = NoCount] ELSE files
  /\ UNCHANGED <<set, target, saved>>

\* All are written; the stream is neither flushed nor closed.
EndSave ==
  /\ program = "save" /\ Len(files[target].objects) = Len(set)
  /\ program' = "menu"
  /\ files' = IF files[target] = NoFile
              THEN [files EXCEPT ![target].count = NoCount] ELSE files
  /\ UNCHANGED <<set, target, saved>>

\* A write fails: the menu prints the IOException and goes on, the file stays as it is.
SaveFails ==
  /\ program = "save" /\ program' = "menu"
  /\ UNCHANGED <<set, files, target, saved>>

\* loadSetCLI: the set is replaced when the whole file has been read.
loadSet(name) ==
  /\ program = "menu" /\ files[name] # NoFile
  /\ set' = IF Loadable(files[name]) THEN Loaded(files[name]) ELSE set
  /\ UNCHANGED <<program, files, target, saved>>

-----------------------------------------------------------------------------
\* The default set that comes with the program: one fixture
Shipped == <<[address |-> 1, channels |-> 1, colour |-> TRUE]>>

SetInit ==
  /\ program = "down" /\ set = <<>> /\ target = Default
  /\ saved = [n \in Files |-> IF n = Default THEN Shipped ELSE <<>>]
  /\ files = [n \in Files |-> IF n = Default
                              THEN [count |-> 1, objects |-> saved[n]] ELSE NoFile]

SetNext ==
  \/ StartProgram \/ End \/ addFixture \/ removeFixture
  \/ WriteObject \/ EndSave \/ SaveFails
  \/ \E n \in Files : saveSetFile(n) \/ loadSet(n)

SetSpec == SetInit /\ [][SetNext]_setVars

-----------------------------------------------------------------------------
(* Properties *)

\* A file that loads gives back the whole set that was saved, in its order; a save cut
\* short by the end of the process or by a failed write never loads as a part of a set.
NeverPartial == \A n \in Files : Loadable(files[n]) => Loaded(files[n]) = saved[n]

\* A set that was saved to the end can be loaded, though the stream is neither flushed
\* nor closed.  Two kinds of sets are excepted: the number 0 of an empty set never leaves
\* the buffer, and readObject refuses fixtures that the constructor accepts.
SavedSetLoads ==
  [][EndSave /\ set # <<>>
       /\ (\A i \in DOMAIN set : Readable(set[i])) => Loadable(files'[target])]_setVars

=============================================================================

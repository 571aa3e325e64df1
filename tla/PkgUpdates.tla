----------------------------- MODULE PkgUpdates -----------------------------
(***************************************************************************)
(* ebuild/pkg_updates.py: the chain of moves and slot moves each package   *)
(* name goes through, from the files of profiles/updates.                  *)
(*                                                                         *)
(* Names are 1 .. n.  A line is [op, src, trg, good]: trg the new name or  *)
(* slot, good unless its form is refused.  A file is [name, lines], name   *)
(* the numbers of its quarter and year, <<0>> for a name that is neither.  *)
(* The deques hold commands and each other; mods is [deques, tail, moved], *)
(* a package's own deque being that of its number.                         *)
(***************************************************************************)
EXTENDS Naturals, Sequences, TLC

CONSTANT None

\* What a deque holds: a command, or a deque by its number.
Command(line) ==
    [deque |-> 0, commands |-> <<[op |-> line.op, src |-> line.src, trg |-> line.trg]>>]
Ref(deque) == [deque |-> deque, commands |-> <<>>]

NewMods(n) ==
    [deques |-> [i \in 1 .. n |-> <<>>], tail |-> [i \in 1 .. n |-> i],
     moved |-> [i \in 1 .. n |-> None]]

\* After a move the old name goes on with what the new one goes through from here.
Move(mods, line) ==
    LET d == Len(mods.deques) + 1
        told == [d :> <<>> @@ mods.deques EXCEPT ![mods.tail[line.src]] =
                   @ \o <<Command(line), Ref(d)>>]
    IN  [deques |-> [told EXCEPT ![mods.tail[line.trg]] = Append(@, Ref(d))],
         tail |-> [mods.tail EXCEPT ![line.trg] = d],
         moved |-> [mods.moved EXCEPT ![line.src] = line.trg]]

SlotMove(mods, line) ==
    [mods EXCEPT !.deques[mods.tail[line.src]] = Append(@, Command(line))]

ProcessUpdates(mods, lines) ==
    LET after[i \in 0 .. Len(lines)] ==
          IF i = 0 THEN mods
          ELSE LET m == after[i - 1]
                   l == lines[i]
               IN  IF ~l.good \/ m.moved[l.src] # None THEN m
                   ELSE IF l.op = "move" THEN Move(m, l) ELSE SlotMove(m, l)
    IN  after[Len(lines)]

\* Sorted as text: by quarter, then by year.
Before(f, g) ==
    \/ f.name[1] < g.name[1]
    \/ f.name[1] = g.name[1] /\ f.name[2] < g.name[2]

ScanDirectory(files) == SortSeq(SelectSeq(files, LAMBDA f : f.name # <<0>>), Before)

\* A deque refers to later ones only.
Flattened(mods) ==
    LET flat[d \in 1 .. Len(mods.deques)] ==
          LET upTo[i \in 0 .. Len(mods.deques[d])] ==
                IF i = 0 THEN <<>>
                ELSE LET item == mods.deques[d][i]
                     IN  upTo[i - 1] \o (IF item.deque = 0 THEN item.commands ELSE flat[item.deque])
          IN  upTo[Len(mods.deques[d])]
    IN  flat

\* The chains; a name that has none is not in the mapping.
ReadUpdates(files, n) ==
    LET sorted == ScanDirectory(files)
        mods[i \in 0 .. Len(sorted)] ==
          IF i = 0 THEN NewMods(n) ELSE ProcessUpdates(mods[i - 1], sorted[i].lines)
        all == Flattened(mods[Len(sorted)])
    IN  [name \in {k \in 1 .. n : all[k] # <<>>} |-> all[name]]

-----------------------------------------------------------------------------
\* The chain of a name is what the lines in turn say of it under the name it has by
\* then; of a name that was moved away once, later lines say nothing.
UpdatesAgree(files, n) ==
    LET sorted == ScanDirectory(files)
        lines[i \in 0 .. Len(sorted)] == IF i = 0 THEN <<>> ELSE lines[i - 1] \o sorted[i].lines
        all == lines[Len(sorted)]
        gone(i) == {all[j].src : j \in {k \in 1 .. i - 1 : all[k].good /\ all[k].op = "move"}}
        followed(name) ==
          LET at[i \in 0 .. Len(all)] ==
                IF i = 0 THEN [name |-> name, chain |-> <<>>]
                ELSE LET was == at[i - 1]
                         l == all[i]
                     IN  IF ~l.good \/ l.src # was.name \/ l.src \in gone(i) THEN was
                         ELSE [name |-> IF l.op = "move" THEN l.trg ELSE l.src,
                               chain |-> was.chain \o Command(l).commands]
          IN  at[Len(all)].chain
        read == ReadUpdates(files, n)
    IN  \A name \in 1 .. n :
          followed(name) = IF name \in DOMAIN read THEN read[name] ELSE <<>>
=============================================================================

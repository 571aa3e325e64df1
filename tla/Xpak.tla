--------------------------------- MODULE Xpak ---------------------------------
(***************************************************************************)
(* The metadata at the end of a binary package (binpkg/xpak.py), written   *)
(* in place behind the archive.  A file is a sequence of cells: a number   *)
(* of four bytes or four bytes of a magic is one, a character is one.      *)
(***************************************************************************)
EXTENDS Naturals, Integers, Sequences, SequencesExt, FiniteSets

Num(n) == <<"number", n>>
Magic(m) == <<"magic", m>>
Chars(s) == [i \in DOMAIN s |-> <<"char", s[i]>>]
HeaderPreMagic == <<Magic("XPAK"), Magic("PACK")>>
TrailerPreMagic == <<Magic("XPAK"), Magic("STOP")>>
TrailerPostMagic == Magic("STOP")
HeaderSize == 4
TrailerSize == 4

\* What four bytes are as a number, if they are not one: more than a file has.
Huge == 1000
Unpack(cell) == IF cell[1] = "number" THEN cell[2] ELSE Huge
Read(file, at, n) == SubSeq(file, at + 1, IF at + n > Len(file) THEN Len(file) ELSE at + n)

\* The trailer is at the end, the header that far before it.
CheckMagic(file) ==
    LET trailer == Read(file, Len(file) - TrailerSize, TrailerSize)
        start == Len(file) - (Unpack(trailer[3]) + 2)
        header == Read(file, start, HeaderSize)
    IN IF Len(file) < TrailerSize THEN [err |-> "os"]
       ELSE IF SubSeq(trailer, 1, 2) # TrailerPreMagic \/ trailer[4] # TrailerPostMagic THEN [err |-> "malformed"]
       ELSE IF start < 0 THEN [err |-> "os"]
       ELSE IF Len(header) < HeaderSize \/ SubSeq(header, 1, 2) # HeaderPreMagic THEN [err |-> "malformed"]
       ELSE [err |-> "none", start |-> start, index |-> Unpack(header[3])]

KeyRewrite(key) == IF key = Chars(<<"repo">>) THEN Chars(<<"REPO">>) ELSE key

\* The keys with where their values are, until the length of the index is used up, which it
\* has to be exactly.
RECURSIVE Keys(_, _, _, _)
Keys(file, at, left, data) ==
    LET entry == Read(file, at, 1)
        key == Read(file, at + 1, Unpack(entry[1]))
        place == Read(file, at + 1 + Len(key), 2)
        rest == Keys(file, at + 3 + Len(key), left - (Len(key) + 3), data)
    IN IF left = 0 THEN [err |-> "none", keys |-> <<>>]
       ELSE IF entry = <<>> THEN [err |-> "struct"]
       ELSE IF Len(key) # Unpack(entry[1]) \/ Len(place) < 2 THEN [err |-> "malformed"]
       ELSE IF rest.err # "none" THEN rest
       ELSE [rest EXCEPT !.keys = <<[key |-> KeyRewrite(key), at |-> data + Unpack(place[1]), len |-> Unpack(place[2])]>> \o @]
KeysDict(file) ==
    LET found == CheckMagic(file) IN
    IF found.err # "none" THEN found
    ELSE Keys(file, found.start + HeaderSize, found.index, found.start + HeaderSize + found.index)

\* Of a key that is there twice the last is what counts.
Items(file) ==
    LET keys == KeysDict(file).keys
        data(k) == Read(file, k.at, k.len)
    IN [err |-> IF \E i \in DOMAIN keys : Len(data(keys[i])) # keys[i].len THEN "assertion" ELSE "none",
        items |-> {<<keys[i].key, data(keys[i])>> : i \in {j \in DOMAIN keys : \A k \in DOMAIN keys : k > j => keys[k].key # keys[j].key}}]

-----------------------------------------------------------------------------
Lens(data, n) == FoldLeft(LAMBDA acc, e : acc + Len(e[2]), 0, SubSeq(data, 1, n))
Segment(data) ==
    LET index == FlattenSeq([i \in DOMAIN data |->
                   <<Num(Len(data[i][1]))>> \o data[i][1] \o <<Num(Lens(data, i - 1)), Num(Len(data[i][2]))>>])
        values == FlattenSeq([i \in DOMAIN data |-> data[i][2]])
    IN HeaderPreMagic \o <<Num(Len(index)), Num(Len(values))>> \o index \o values
       \o TrailerPreMagic \o <<Num(Len(index) + Len(values) + TrailerSize + 2), TrailerPostMagic>>

\* Where it is put: in place of what is there, if that can be told, else behind it.
Start(file) == IF KeysDict(file).err = "none" THEN CheckMagic(file).start ELSE Len(file)
\* A struct.error on the way there is not caught.
WriteXpak(file, data) ==
    IF KeysDict(file).err = "struct" THEN file ELSE SubSeq(file, 1, Start(file)) \o Segment(data)
\* Broken off after n cells, before what is left of the file is cut off.
Interrupted(file, data, n) ==
    SubSeq(file, 1, Start(file)) \o SubSeq(Segment(data), 1, n) \o SubSeq(file, Start(file) + n + 1, Len(file))

-----------------------------------------------------------------------------
\* What was written is read, and writing again leaves nothing of what was there but the
\* archive.  If it is broken off the archive is still whole; and once more is written than
\* there was, it is noticed, and the next time all is written again.
XpakAgrees(archive, old, new) ==
    LET file == WriteXpak(archive, old)
        says(data) == {<<KeyRewrite(data[i][1]), data[i][2]>> : i \in DOMAIN data}
        good(f, data) == KeysDict(f).err = "none" /\ Items(f) = [err |-> "none", items |-> says(data)]
    IN /\ good(file, old)
       /\ WriteXpak(file, new) = WriteXpak(archive, new)
       /\ \A n \in 0..(Len(Segment(new)) - 1) :
            LET broken == Interrupted(file, new, n) IN
            /\ IsPrefix(archive, broken)
            /\ n >= Len(Segment(old)) =>
                 /\ KeysDict(broken).err \in {"malformed", "os"}
                 /\ IsPrefix(archive, WriteXpak(broken, new)) /\ good(WriteXpak(broken, new), new)
===============================================================================

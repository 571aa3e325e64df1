------------------------------ MODULE Manifests ------------------------------
(***************************************************************************)
(* The Manifest of a package directory (ebuild/digest.py, gpg.py), and the *)
(* command that brings it up to date (repo_operations in                   *)
(* ebuild/repository.py): what is fetched again, what is kept, written and *)
(* read back.                                                              *)
(***************************************************************************)
EXTENDS Naturals, Sequences, SequencesExt, FiniteSets, Functions

CONSTANTS None,
          Less(_, _)  \* the order of names

Types == {"DIST", "AUX", "EBUILD", "MISC"}
\* Two files may have one size; every other sum tells them apart.
Sum(chf, data) == IF chf = "size" THEN data.size ELSE data.id
SumsOf(data, chfs) == [c \in chfs |-> Sum(c, data)]

-----------------------------------------------------------------------------
(* Reading.  A line is the sequence of its words: the type, the name, the  *)
(* size, then every other sum after the name of its kind.  The lines of a  *)
(* signature have one word; a blank line has none.                         *)

ManifestLine(type, name, sums) ==
    <<type, name, sums["size"]>> \o FlattenSeq([i \in 1..Cardinality(DOMAIN sums) - 1 |->
        LET c == SetToSortSeq(DOMAIN sums \ {"size"}, Less)[i] IN <<c, sums[c]>>])
Piece(p) == IF p = "blank" THEN <<>> ELSE <<p>>
Raised == <<"raised">>

\* From line i on; Raised where the lines end in the middle of a header or just after a footer.
RECURSIVE SkipSignatures(_, _)
SkipSignatures(text, i) ==
    IF i > Len(text) THEN <<>>
    ELSE IF text[i] = Piece("message") THEN IF i + 2 > Len(text) THEN <<Raised>> ELSE SkipSignatures(text, i + 3)
    ELSE IF text[i] = Piece("signature")
         THEN LET ends == {j \in i + 1..Len(text) : text[j] = Piece("footer")}
                  end == CHOOSE j \in ends : \A k \in ends : j <= k
              IN IF ends = {} \/ end = Len(text) THEN <<Raised>>
                 ELSE IF text[end + 1] = Piece("message") THEN <<text[end + 1]>> \o SkipSignatures(text, end + 2)
                 ELSE SkipSignatures(text, end + 1)
    ELSE <<text[i]>> \o SkipSignatures(text, i + 1)

\* A line that cannot be read ends the reading, as do those of a signature that is not skipped.
Readable(line) == line[1] \in Types /\ Len(line) >= 3 /\ Len(line) % 2 = 1
Names(line) == <<line[1], line[2]>>
SumsIn(line) ==
    LET kinds == {i \in 4..Len(line) : i % 2 = 0 /\ line[i] # "size"}
    IN [c \in {"size"} \cup {line[i] : i \in kinds} |->
          IF c = "size" THEN line[3] ELSE line[(CHOOSE i \in kinds : line[i] = c /\ \A j \in kinds : line[j] = c => j <= i) + 1]]
Read(err, data) == [err |-> err, data |-> data]
ParseLines(lines) ==
    LET bad(i) == ~Readable(lines[i]) \/ \E j \in 1..i - 1 : Readable(lines[j]) /\ Names(lines[j]) = Names(lines[i])
        first == {i \in DOMAIN lines : bad(i) /\ \A j \in 1..i - 1 : ~bad(j)}
        entry(t, n) == CHOOSE l \in ToSet(lines) : Names(l) = <<t, n>>
    IN IF \E i \in first : lines[i] = Raised THEN Read("RuntimeError", None)
       ELSE IF first # {} THEN Read("ParseChksumError", None)
       ELSE Read("none", [t \in Types |-> [n \in {l[2] : l \in {k \in ToSet(lines) : k[1] = t}} |-> SumsIn(entry(t, n))]])
ParseManifest(text, ignoreGpg) ==
    ParseLines(SelectSeq(IF ignoreGpg THEN SkipSignatures(text, 1) ELSE text, LAMBDA l : l # Piece("blank")))

Nothing == [t \in Types |-> <<>>]
\* man: file (the text, None if there is none), data (None until it is read), err, thin, gpg, allowMissing.
\* What is wrong in it is reported as wrong metadata, that it is missing is not.
PullManifest(man) ==
    LET parsed == ParseManifest(man.file, man.gpg)
        r == IF man.file # None THEN [parsed EXCEPT !.err = IF @ = "ParseChksumError" THEN "MetadataException" ELSE @]
             ELSE IF man.thin \/ man.allowMissing THEN Read("none", Nothing) ELSE Read("ParseChksumError", None)
    IN IF man.data # None THEN [man EXCEPT !.err = "none"] ELSE [man EXCEPT !.data = r.data, !.err = r.err]

-----------------------------------------------------------------------------
(* Writing.  dir is what the directory of the package holds.               *)

Excluded == {"CVS", ".svn", "Manifest"}
Listed(dir) == {o \in dir : o.reg /\ Excluded \cap {o.name, o.dir} = {}}
Unexpected(dir) == {o \in Listed(dir) : o.dir \notin {"/", "files"}}
TypeOfFile(o) == IF o.dir = "files" THEN "AUX" ELSE IF o.ebuild THEN "EBUILD" ELSE "MISC"
LinesOf(t, sums) == LET names == SetToSortSeq(DOMAIN sums, Less) IN [i \in DOMAIN names |-> ManifestLine(t, names[i], sums[names[i]])]

\* <<how it ended, the Manifest>>.  A thin one without files to fetch is left as it is.
Update(man, dir, fetchables, conf) ==
    LET names(t) == {o.name : o \in {p \in Listed(dir) : TypeOfFile(p) = t}}
        object(t, n) == CHOOSE o \in Listed(dir) : TypeOfFile(o) = t /\ o.name = n
        of(t) == IF man.thin THEN <<>> ELSE LinesOf(t, [n \in names(t) |-> SumsOf(object(t, n).data, conf.hashes)])
        text == of("AUX") \o LinesOf("DIST", fetchables) \o of("EBUILD") \o of("MISC")
    IN IF man.thin /\ fetchables = <<>> THEN <<"current", man>>
       ELSE IF ~man.thin /\ Unexpected(dir) # {} THEN <<"ValueError", man>>
       ELSE IF man.file = text THEN <<"current", man>>
       ELSE IF ~conf.writable THEN <<"OSError", man>>
       ELSE <<"written", [man EXCEPT !.file = text, !.data = None]>>

-----------------------------------------------------------------------------
(* The command, for one package.  versions maps each version to the names  *)
(* it fetches, upstream the names to what is served (None: nothing), and   *)
(* conf has disabled, hashes (those written), required, thin, force, the   *)
(* hashes that can be computed (handled), whether some version has bad     *)
(* metadata (masked) and whether the directory can be written.             *)

\* Sums a fetchable starts with: the Manifest's, none for a file it does not list.
Recorded(man, f) == IF f \in DOMAIN man.data["DIST"] THEN man.data["DIST"][f] ELSE <<>>
Sufficient(sums, required) == required \subseteq DOMAIN sums
Verifies(data, sums) == data # None /\ \A c \in DOMAIN sums : sums[c] = Sum(c, data)

FilesOf(versions, some) == UNION {versions[v] : v \in some}
Stale(man, conf, files) == {f \in files : conf.force \/ ~Sufficient(Recorded(man, f), conf.required)}
Kept(man, conf, files) == [f \in {g \in files : Sufficient(Recorded(man, g), conf.required)} |-> Recorded(man, f)]
IsCurrent(man, conf, files) ==
    /\ ~conf.force /\ conf.thin
    /\ Stale(man, conf, files) = {}
    /\ DOMAIN man.data["DIST"] = files
    /\ \A t \in Types \ {"DIST"} : man.data[t] = <<>>
\* os.path.exists is asked of the path, whatever was read of it before
Removed(man, conf) ==
    IF man.file = None THEN <<"not needed", man>>
    ELSE IF ~conf.writable THEN <<"failed removing", man>>
    ELSE <<"removed", [man EXCEPT !.file = None]>>

\* What is asked for again is held to the recorded sums that are still written, and gets all of these.
Digest(man, versions, matched, conf, upstream, dir) ==
    LET files == FilesOf(versions, matched)
        stale == Stale(man, conf, files)
        held(f) == Restrict(Recorded(man, f), DOMAIN Recorded(man, f) \cap conf.hashes)
        \* in a stale one the cut is made in place, so that other versions' objects still have all
        kept == Kept(man, conf, FilesOf(versions, DOMAIN versions))
        fetched == [f \in stale |-> SumsOf(upstream[f], conf.hashes)]
    IN IF man.err # "none" THEN <<man.err, man>>
       ELSE IF conf.thin /\ files = {} THEN Removed(man, conf)
       ELSE IF IsCurrent(man, conf, files) THEN <<"current", man>>
       ELSE IF \E f \in stale : ~Verifies(upstream[f], held(f)) \/ ~(DOMAIN held(f) \subseteq conf.handled) THEN <<"fetch failed", man>>
       ELSE IF (stale # {} \/ ~conf.thin) /\ ~(conf.hashes \subseteq conf.handled) THEN <<"MissingChksumHandler", man>>
       ELSE Update(man, dir, fetched @@ kept, conf)
Opened(man) == PullManifest([man EXCEPT !.allowMissing = TRUE])
ManifestCommand(before, versions, matched, conf, upstream, dir) ==
    IF conf.disabled THEN <<"disabled", before>>
    ELSE IF conf.masked THEN <<"bad metadata", before>>
    ELSE Digest(Opened(before), versions, matched, conf, upstream, dir)

-----------------------------------------------------------------------------
(* What is promised.                                                       *)

Reread(man) == PullManifest([man EXCEPT !.data = None])

\* listed maps the files to fetch to the sums that were written for them, old is the Manifest before.
SumsAreKept(old, listed, versions, matched, conf, upstream) ==
    LET files == FilesOf(versions, matched)
        all == FilesOf(versions, DOMAIN versions)
    IN /\ files \cup {f \in all : Sufficient(Recorded(old, f), conf.required)} \subseteq DOMAIN listed
       /\ DOMAIN listed \subseteq all
       /\ \A f \in DOMAIN listed :
            /\ listed[f] = Recorded(old, f) \/ (f \in files /\ listed[f] = SumsOf(upstream[f], conf.hashes))
            /\ \A c \in DOMAIN listed[f] \cap DOMAIN Recorded(old, f) \cap conf.hashes : listed[f][c] = Recorded(old, f)[c]
DirectoryIsListed(data, conf, dir) ==
    \A o \in dir : o.reg /\ ~conf.thin /\ o.name # "Manifest" /\ o.dir \in {"/", "files"} =>
        o.name \in DOMAIN data[TypeOfFile(o)] /\ Verifies(o.data, data[TypeOfFile(o)][o.name])

\* result says how it ended, man is the Manifest then, after what is read of it.
Outcome(result, man, old, after, versions, matched, conf, upstream, dir) ==
    /\ result \notin {"written", "removed"} => man.file = old.file
    /\ result = "ValueError" => \E o \in dir : o.reg /\ o.dir \notin {"/", "files", "CVS", ".svn"}
    /\ result = "current" => /\ FilesOf(versions, matched) \subseteq DOMAIN old.data["DIST"]
                             /\ DOMAIN old.data["DIST"] \subseteq FilesOf(versions, DOMAIN versions)
    /\ result = "written" => /\ man.data = None
                             /\ after.err = "none"
                             /\ SumsAreKept(old, after.data["DIST"], versions, matched, conf, upstream)
                             /\ DirectoryIsListed(after.data, conf, dir)
    /\ result \in {"written", "current", "removed", "not needed"} /\ conf.required \subseteq conf.hashes =>
         ManifestCommand([man EXCEPT !.data = None], versions, matched, [conf EXCEPT !.force = FALSE], upstream, dir)[1]
             \in {"current", "not needed"}

\* What is written is what is there: it is read back without an error, lists the files of the directory
\* with their sums and every file a version fetches that was fetched now or was listed with what is
\* required; a file keeps its recorded sums unless it was fetched again, and then the sums that are still
\* written held; another run changes nothing.
ManifestAgrees(before, versions, matched, conf, upstream, dir) ==
    LET r == ManifestCommand(before, versions, matched, conf, upstream, dir)
    IN Outcome(r[1], r[2], Opened(before), Reread(r[2]), versions, matched, conf, upstream, dir)

\* A text signed once, with something after the signature, is read as the text itself; where
\* the signature ends it, and where signatures are not looked for, nothing is read.
SignedAgrees(text, rest) ==
    LET header == <<Piece("message"), Piece("hash"), Piece("blank")>>
        signed == header \o text \o <<Piece("signature"), Piece("text"), Piece("blank"), Piece("footer")>>
    IN /\ ParseManifest(signed \o rest, TRUE) = ParseManifest(text \o rest, FALSE) \/ rest = <<>>
       /\ ParseManifest(signed, FALSE).err = "ParseChksumError"
       /\ ParseManifest(signed, TRUE).err = IF ParseManifest(text, FALSE).err = "none" THEN "RuntimeError" ELSE "ParseChksumError"
=============================================================================

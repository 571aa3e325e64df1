------------------------------ MODULE Config -------------------------------
(***************************************************************************)
(* The configuration manager of config/central.py: sections from several   *)
(* sources, which override and inherit from each other, collapsed into     *)
(* one set of values and instantiated once, on demand, whatever else they  *)
(* refer to first.  A section is a function from the keys it has to their  *)
(* values; a source is a sequence of named sections.  The conversion of    *)
(* strings is left out, as are sections without a name.                    *)
(***************************************************************************)
EXTENDS Naturals, Sequences, SequencesExt, FiniteSets, FiniteSetsExt, TLC
CONSTANTS None,
          Callables  \* name to what a class setting may name

Keyed(k, f) == k \in DOMAIN f
ConfigError(m) == [ok |-> FALSE, m |-> m, value |-> None]
Ok(m, v) == [ok |-> TRUE, m |-> m, value |-> v]

-----------------------------------------------------------------------------
(* A callable has code ("builtin" and "object" have none to look at), its  *)
(* arguments, the types the defaults of the last of them tell ("other" if  *)
(* none that is known), whether it takes others too, and what it was       *)
(* decorated with.  A type of a key is a reference (or not) to a type.     *)
ConfigHint == [hinted |-> FALSE, types |-> <<>>, positional |-> <<>>, required |-> <<>>, typename |-> None,
               unknowns |-> FALSE, authorative |-> FALSE, wants |-> None, raw |-> FALSE]
Configurable(given) == given @@ [ConfigHint EXCEPT !.hinted = TRUE]
Value(of) == [ref |-> "", of |-> of]
Ref(ref, of) == [ref |-> ref, of |-> of]      \* "ref", "refs", "lazy_ref" or "lazy_refs"

Introspected(f) ==
    LET first == Len(f.args) - Len(f.defaults)
        telling == {i \in DOMAIN f.defaults : f.defaults[i] # "other"}
        named(a) == CHOOSE i \in telling : f.args[first + i] = a
    IN [positional |-> SubSeq(f.args, 1, first),
        types |-> [a \in {f.args[i] : i \in 1..first} |-> Value("str")]
                  @@ [a \in {f.args[first + i] : i \in telling} |-> Value(f.defaults[named(a)])]]
\* None if it cannot be configured
ConfigType(f) ==
    LET hint == f.hint
        seen == IF hint.authorative \/ f.code = "object" THEN [positional |-> <<>>, types |-> <<>>] ELSE Introspected(f)
        positional == IF hint.positional # <<>> THEN hint.positional ELSE seen.positional
        required == ToSet(IF hint.required # <<>> THEN hint.required ELSE seen.positional) \ {hint.wants}
        types == hint.types @@ seen.types
    IN IF \/ ~hint.authorative /\ f.code = "builtin"
          \/ ~hint.hinted /\ f.variadic
          \/ {"class", "inherit", "default"} \cap DOMAIN types # {}
          \/ ~(ToSet(positional) \subseteq required \cup {hint.wants})
       THEN None
       ELSE [name |-> IF hint.typename = None THEN f.name ELSE hint.typename, types |-> types, required |-> required,
             unknowns |-> hint.unknowns, wants |-> hint.wants, raw |-> hint.raw]

\* order has the names of lookup as they came, types is None until it was asked for
Manager == [lookup |-> <<>>, order |-> <<>>, rendered |-> <<>>, types |-> None, refs |-> {}, instances |-> {}, made |-> <<>>]

-----------------------------------------------------------------------------
(* _get_inherited_sections: the section, then what it inherits, then what  *)
(* that inherits; a name twice is taken for a cycle, but a section may     *)
(* inherit from the one of its own name it overrides.                      *)
RECURSIVE Inherits(_, _, _, _), Inherit(_, _, _, _, _, _)
Inherit(lookup, slist, seen, names, current, stack) ==
    IF names = <<>> THEN [ok |-> TRUE, slist |-> slist, seen |-> seen]
    ELSE LET n == Head(names)
             bad == [ok |-> FALSE, slist |-> <<>>, seen |-> seen]
         IN IF n = current
            THEN IF Len(stack) = 1 THEN bad
                 ELSE Inherit(lookup, Append(slist, <<n, Tail(stack)>>), seen, Tail(names), current, stack)
            ELSE IF n \in seen \/ ~Keyed(n, lookup) THEN bad
                 ELSE Inherit(lookup, Append(slist, <<n, lookup[n]>>), seen \cup {n}, Tail(names), current, stack)
Inherits(lookup, slist, i, seen) ==
    IF i > Len(slist) THEN [ok |-> TRUE, sections |-> [j \in DOMAIN slist |-> Head(slist[j][2])]]
    ELSE LET conf == Head(slist[i][2])
             r == IF Keyed("inherit", conf) THEN Inherit(lookup, slist, seen, conf["inherit"], slist[i][1], slist[i][2])
                  ELSE [ok |-> TRUE, slist |-> slist, seen |-> seen]
         IN IF r.ok THEN Inherits(lookup, r.slist, i + 1, r.seen) ELSE [ok |-> FALSE, sections |-> <<>>]
InheritedSections(lookup, name) == Inherits(lookup, <<<<name, lookup[name]>>>>, 1, {name})

\* _ConfigStack: the value of the first section that has the key
RenderValue(sections, key) ==
    LET has == SelectSeq(sections, LAMBDA s : Keyed(key, s))
    IN IF has = <<>> THEN None ELSE Head(has)[key]
InheritOnly(section) == Keyed("inherit-only", section) /\ section["inherit-only"]

-----------------------------------------------------------------------------
(* collapse_named_section, collapse_section, _render_config_stack and the  *)
(* collapse of a LazyNamedSectionRef.  refs are the names that are being   *)
(* collapsed; what was collapsed on the way stays known if it all fails.   *)
RECURSIVE CollapseNamed(_, _)
Own == {"inherit", "inherit-only", "class", "default"}
OfType(r, typename) == IF r.ok /\ r.value.type.name = typename THEN r ELSE ConfigError(r.m)
CollapseRefs(m, names, typename) ==
    FoldLeft(LAMBDA r, n : IF r.ok THEN OfType(CollapseNamed(r.m, n), typename) ELSE r, Ok(m, None), names)
NamesIn(type, k, value) == CASE type.types[k].ref = "ref" -> <<value>> [] type.types[k].ref = "refs" -> value [] OTHER -> <<>>
RenderKey(r, stack, type, k) ==
    IF ~r.ok THEN r
    ELSE IF ~Keyed(k, type.types) THEN IF type.unknowns THEN r ELSE ConfigError(r.m)
    ELSE CollapseRefs(r.m, NamesIn(type, k, RenderValue(stack, k)), type.types[k].of)
\* the keys in the order they are met, and only then whether any is missing
RenderConfigStack(m, stack, type) ==
    LET keys == UNION {DOMAIN s : s \in ToSet(stack)} \ Own
        r == FoldLeft(LAMBDA q, k : RenderKey(q, stack, type, k), Ok(m, None), SetToSeq(keys))
    IN IF r.ok /\ type.required \subseteq keys
       THEN Ok(r.m, [type |-> type, conf |-> [k \in keys |-> RenderValue(stack, k)], default |-> RenderValue(stack, "default") = TRUE])
       ELSE ConfigError(r.m)
TypeOf(class) == IF class = None \/ ~Keyed(class, Callables) THEN None ELSE ConfigType(Callables[class])
CollapseSection(m, name) ==
    LET inherited == InheritedSections(m.lookup, name)
        type == TypeOf(RenderValue(inherited.sections, "class"))
    IN IF InheritOnly(Head(m.lookup[name])) \/ ~inherited.ok \/ type = None THEN ConfigError(m)
       ELSE RenderConfigStack(m, inherited.sections, type)
Remembered(r, name, refs) ==
    LET back == [r.m EXCEPT !.refs = refs]
    IN IF r.ok THEN Ok([back EXCEPT !.rendered = (name :> r.value) @@ @], r.value) ELSE ConfigError(back)
CollapseNamed(m, name) ==
    IF name \in m.refs THEN ConfigError(m)
    ELSE IF Keyed(name, m.rendered) THEN Ok(m, m.rendered[name])
    ELSE IF ~Keyed(name, m.lookup) THEN ConfigError(m)
    ELSE Remembered(CollapseSection([m EXCEPT !.refs = @ \cup {name}], name), name, m.refs)

-----------------------------------------------------------------------------
(* CollapsedConfig.instantiate: what is referred to first (but for lazy    *)
(* references), then the callable, unless it is itself what is asked for;  *)
(* it may fail or return nothing; the instance is kept.                    *)
RECURSIVE Instantiate(_, _, _)
InstantiateAll(m, names, failing) ==
    FoldLeft(LAMBDA r, n : IF r.ok THEN Instantiate(r.m, n, failing) ELSE r, Ok(m, None), names)
Kept(m, name) == Ok([m EXCEPT !.instances = @ \cup {name}], name)
Made(r, name, failing) ==
    IF ~r.ok THEN r
    ELSE IF r.m.rendered[name].type.raw THEN Kept(r.m, name)
    ELSE IF name \in failing THEN ConfigError([r.m EXCEPT !.made = Append(@, name)])
    ELSE Kept([r.m EXCEPT !.made = Append(@, name)], name)
Instantiate(m, name, failing) ==
    IF name \in m.instances THEN Ok(m, name)
    ELSE LET of == m.rendered[name]
             keys == SetToSeq(DOMAIN of.conf \cap DOMAIN of.type.types)
             names == FlattenSeq([i \in DOMAIN keys |-> NamesIn(of.type, keys[i], of.conf[keys[i]])])
         IN Made(InstantiateAll(m, names, failing), name, failing)

(* _integrate_config_source: the sections go on top of those of their name *)
(* one after another, and one whose name starts with "autoload" brings its *)
(* source in at once.  Autoloaded is what the parser returns for a path,   *)
(* if there is a file.  What it brings goes on top of the sections of the  *)
(* source that brought it, as the code does (appendleft), although the     *)
(* docstring (central.py:342-344) has the containing config override it.   *)
RECURSIVE Integrate(_, _, _)
Autoloads == {"autoload", "autoload-too"}
Override(m, n, section) ==
    [m EXCEPT !.lookup = (n :> (<<section>> \o (IF Keyed(n, @) THEN @[n] ELSE <<>>))) @@ @,
              !.order = IF Keyed(n, m.lookup) THEN @ ELSE Append(@, n)]
Autoload(r, n, autoloaded) ==
    LET path == r.value.conf["path"]
        made == Instantiate(r.m, n, IF Keyed(path, autoloaded) THEN {} ELSE {n})
    IN IF ~r.ok THEN r
       ELSE IF made.ok THEN Integrate(made.m, autoloaded[path], autoloaded) ELSE made
IntegrateSection(m, n, autoloaded) ==
    IF n \in Autoloads THEN Autoload(OfType(CollapseNamed(m, n), "configsection"), n, autoloaded) ELSE Ok(m, None)
Integrate(m, source, autoloaded) ==
    IF \E i \in DOMAIN source : Keyed(source[i][1], m.rendered) THEN ConfigError(m)
    ELSE FoldLeft(LAMBDA r, s : IF r.ok THEN IntegrateSection(Override(r.m, s[1], s[2]), s[1], autoloaded) ELSE r,
                  Ok(m, None), source)
\* reload and add_config_source: everything anew, but for the names that are
\* being collapsed
Reload(m, sources, autoloaded) ==
    FoldLeft(LAMBDA r, s : IF r.ok THEN Integrate(r.m, s, autoloaded) ELSE r, Ok([Manager EXCEPT !.refs = m.refs], None), sources)

-----------------------------------------------------------------------------
(* types, get_default and the mappings of objects by type.                 *)
Collapsible(m) == SelectSeq(m.order, LAMBDA n : ~InheritOnly(Head(m.lookup[n])))
Types(m) ==
    LET r == FoldLeft(LAMBDA q, n : IF q.ok THEN CollapseNamed(q.m, n) ELSE q, Ok(m, None), Collapsible(m))
        types == [n \in ToSet(Collapsible(m)) |-> r.m.rendered[n]]
    IN IF m.types # None THEN Ok(m, m.types)
       ELSE IF r.ok THEN Ok([r.m EXCEPT !.types = types], types) ELSE r
DefaultOf(r, typename, failing) ==
    LET defaults == {n \in DOMAIN r.value : r.value[n].type.name = typename /\ r.value[n].default}
    IN IF ~r.ok THEN r
       ELSE IF Cardinality(defaults) > 1 THEN ConfigError(r.m)
       ELSE IF defaults = {} THEN Ok(r.m, None)
       ELSE Instantiate(r.m, CHOOSE n \in defaults : TRUE, failing)
GetDefault(m, typename, failing) == DefaultOf(Types(m), typename, failing)
RenderedOf(m, typename) == Ok(m, {n \in DOMAIN m.rendered : m.rendered[n].type.name = typename})
MappingKeys(m, typename) == RenderedOf(FoldLeft(LAMBDA r, n : CollapseNamed(r.m, n), Ok(m, None), m.order).m, typename)
Instance(r, name, failing) == IF r.ok THEN Instantiate(r.m, name, failing) ELSE r
MappingItem(m, typename, name, failing) == Instance(OfType(CollapseNamed(m, name), typename), name, failing)
\* a name nobody gave is not there, one that cannot be collapsed raises
MappingContains(m, typename, name) ==
    LET r == CollapseNamed(m, name)
    IN IF name \notin m.refs /\ ~Keyed(name, m.rendered) /\ ~Keyed(name, m.lookup) THEN Ok(m, FALSE)
       ELSE IF r.ok THEN Ok(r.m, r.value.type.name = typename) ELSE r

-----------------------------------------------------------------------------
(* What the calls promise, whatever was called before and however it ended.*)
Call(m, call, failing) ==
    CASE call[1] = "collapse" -> CollapseNamed(m, call[2])
      [] call[1] = "item" -> MappingItem(m, "repo", call[2], failing)
      [] call[1] = "contains" -> MappingContains(m, "repo", call[2])
      [] call[1] = "keys" -> MappingKeys(m, "repo")
      [] OTHER -> GetDefault(m, "repo", failing)
\* the names that can be collapsed: the least set that is closed, so that
\* nothing in it refers to itself
WellTyped(lookup, known, stack, type) ==
    LET value(k) == RenderValue(stack, k)
        keys == UNION {DOMAIN s : s \in ToSet(stack)} \ Own
        is(n) == TypeOf(RenderValue(InheritedSections(lookup, n).sections, "class")).name
    IN /\ type # None
       /\ type.unknowns \/ keys \subseteq DOMAIN type.types
       /\ type.required \subseteq keys
       /\ \A k \in keys \cap DOMAIN type.types :
            \A n \in ToSet(NamesIn(type, k, value(k))) : n \in known /\ is(n) = type.types[k].of
SoundWith(lookup, known, inherited) ==
    inherited.ok /\ WellTyped(lookup, known, inherited.sections, TypeOf(RenderValue(inherited.sections, "class")))
RECURSIVE Sound(_, _)
Sound(lookup, known) ==
    LET more == {n \in DOMAIN lookup : ~InheritOnly(Head(lookup[n])) /\ SoundWith(lookup, known, InheritedSections(lookup, n))}
    IN IF more = known THEN known ELSE Sound(lookup, more)

SameOutcome(r, fresh, sound) == (r.ok <=> sound) /\ (r.ok => r.value = fresh.value)
Forgotten(start, m) ==
    /\ \A n \in DOMAIN m.lookup \ DOMAIN start.rendered :
         SameOutcome(CollapseNamed(m, n), CollapseNamed(start, n), n \in Sound(m.lookup, DOMAIN start.rendered))
    /\ \A n \in m.instances : Cardinality({i \in DOMAIN m.made : m.made[i] = n}) = IF m.rendered[n].type.raw THEN 0 ELSE 1
AsAnew(start, loaded, second, failing) ==
    loaded.ok = start.ok /\ (start.ok => Forgotten(start.m, Call(loaded.m, second, failing).m))
\* After any calls, some of which failed, and sources added in between, a section
\* collapses if and only if it can be, and to what it would had nothing been asked
\* before; no callable that succeeded is called again.  What an autoload made the
\* manager collapse before all sections were there keeps the values of that time.
HistoryIsForgotten(sources, first, added, second, autoloaded, failing) ==
    LET before == Call(Reload(Manager, sources, autoloaded).m, first, failing).m
    IN AsAnew(Reload(Manager, sources \o added, autoloaded), Reload(before, sources \o added, autoloaded), second, failing)
=============================================================================

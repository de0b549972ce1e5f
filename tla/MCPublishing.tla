----------------------------- MODULE MCPublishing -----------------------------
(* Spellings, patterns and headers for TLC. *)
EXTENDS PublishingProps, TLC

CONSTANTS none, invalid, binary

Name(scheme, parts) == [scheme |-> scheme, parts |-> parts]

AllParts == {"public", "default", "a", "b", ""}
ValidParts == AllParts \ {""}

Bare == Name(NoScheme, <<"a">>)
Short == Name(NoScheme, <<"public", "default", "a">>)
Full == Name("persistent", <<"public", "default", "a">>)
Volatile == Name("non-persistent", <<"a">>)
Other == Name(NoScheme, <<"b", "a", "b">>)
Spelled == {Bare, Full, Volatile, Other, Name(NoScheme, <<"a", "b">>), Name(NoScheme, <<"">>)}

\* ".*", "a" in any domain, one of a namespace, one of a namespace that is no
\* name, no expression.
Everything == Name(NoScheme, <<"a">>)
Persistents == Name("persistent", <<"b", "a", "a">>)
Nowhere == Name("persistent", <<"a">>)
Broken == Name(NoScheme, <<"b">>)
AllPatterns == {Everything, Persistents, Nowhere, Broken}
Matching ==
  [p \in AllPatterns |->
     CASE p = Everything  -> FullNames
       [] p = Persistents -> {t \in FullNames : Persistence(t) = "persistent"}
       [] p = Nowhere     -> FullNames
       [] OTHER           -> Invalid]

Routes == {r \in {List(<<Bare>>), List(<<Full, Bare>>), List(<<Short, Volatile>>),
                  List(<<Name(NoScheme, <<"a", "b">>)>>)} \cup
                 {Pattern(p) : p \in AllPatterns} : Routable(r)}
\* Calls with a key in the headers, at the call site, in both and in neither, one
\* with a header that is not text, one that is too large.
Keyed(value) == [name \in {"partition-key"} |-> value]
Body(size, headers, key) == [size |-> size, headers |-> headers, key |-> key]
CallBodies ==
  {Body(1, <<>>, none), Body(1, <<>>, "k"), Body(1, Keyed("l"), none), Body(1, Keyed("l"), "k"),
   Body(1, [name \in {"partition-key", "x"} |-> "k"], "l"),
   Body(1, [name \in {"x"} |-> binary], "k"), Body(2, [name \in {"x"} |-> "k"], none)}
=============================================================================

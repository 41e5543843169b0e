--------------------------- MODULE IncludeLoader ---------------------------
(***************************************************************************)
(* slivka.utils.SafeTranscludingOrderedYamlLoader with its '!include'    *)
(* and mapping constructors: loading one configuration file.             *)
(*                                                                         *)
(* Every file is a mapping over Keys, constructed in the order KeyOrder.  *)
(* A value is a scalar or an '!include' directive: the text              *)
(* 'ref#/k1/k2', given as the file reference ref (a sequence of path     *)
(* segments) and the fragment after '#' split at '/' (NoFragment when    *)
(* the text has no '#').  _include_constructor opens the file at once and *)
(* loads it with a new loader, so nested loads form a stack: stack[i] is *)
(* the i-th loader on the Python call stack, with its root_path, the      *)
(* mapping it has built so far and the key path its caller will follow.  *)
(* Python's recursion limit ends a load nested MaxDepth deep with a      *)
(* RecursionError.  A file's contents are chosen in Init and never       *)
(* change.                                                                 *)
(***************************************************************************)
EXTENDS Naturals, Sequences, SequencesExt

CONSTANTS
    Files,        \* the files that exist, as normalised path segment sequences
    Root,         \* the file yaml.load is called on
    Keys,         \* the keys of every mapping
    KeyOrder,     \* the order the keys appear in a file
    IncludeKeys,  \* the keys whose value may be an '!include' directive
    Refs,         \* file references a directive may name
    Fragments,    \* fragments after '#', split at '/'
    NoFragment,   \* a directive without '#'
    MaxDepth      \* loaders that fit on the Python stack

ASSUME IncludeAssumption ==
    /\ Root \in Files
    /\ KeyOrder \in Seq(Keys) /\ IncludeKeys \subseteq Keys
    /\ MaxDepth \in Nat \ {0}
    /\ IsFiniteSet(Files)

\* Every value is a function, so that TLC can compare any two of them.
Error(name) == [error |-> name]
Errors == {Error(e) : e \in {"FileNotFoundError", "RecursionError", "TypeError"}}
Scalar == [scalar |-> TRUE]
Loading == [loading |-> TRUE]

Directives == [ref : Refs, frag : Fragments \cup {NoFragment}]

\* The scalar of a file at a key: a value of its own.
Leaf(f, k) == [file |-> f, key |-> k]

\* os.path.dirname.
DirOf(path) == Front(path)

\* The file open() reaches for os.path.join(root, ref): '..' steps up.
Resolve(root, ref) ==
    LET Step(acc, seg) ==
            IF seg = ".." /\ acc # <<>> /\ Last(acc) # ".."
            THEN Front(acc) ELSE Append(acc, seg)
    IN  FoldLeft(Step, <<>>, root \o ref)

\* `path = '/'` when there is no '#', then filter(None, path.split('/')).
KeyPath(frag) ==
    SelectSeq(IF frag = NoFragment THEN <<"", "">> ELSE frag, LAMBDA s : s # "")

\* `for key in ...: obj = obj[key]`: indexing a scalar is a TypeError.
Navigate(obj, path) ==
    LET Index(o, key) ==
            IF o \in Errors THEN o
            ELSE IF DOMAIN o = {"file", "key"} THEN Error("TypeError") ELSE o[key]
    IN  FoldLeft(Index, obj, path)

\* A fault of the kind a change here could introduce: the nested loader
\* keeps its caller's root_path instead of the included file's directory.
NewLoaderKeepingRoot(fn, caller, key, path) ==
    [file |-> fn, root |-> caller.root, doc |-> <<>>, next |-> 1,
     key |-> key, path |-> path]

\* A fault of the kind a change here could introduce: the nested load is
\* handed to the caller without the key path of the '#' fragment.
NewLoaderDroppingPath(fn, caller, key, path) ==
    [file |-> fn, root |-> DirOf(fn), doc |-> <<>>, next |-> 1,
     key |-> key, path |-> <<>>]

\* yaml.load(f, Loader=loader.__class__): a loader whose root_path is the
\* directory of the file it reads (lines 82-88).
NewLoader(fn, caller, key, path) ==
    [file |-> fn, root |-> DirOf(fn), doc |-> <<>>, next |-> 1,
     key |-> key, path |-> path]

VARIABLES
    content,  \* each file's value at each key
    stack,    \* the nested loaders, outermost first
    outcome   \* Loading, then the loaded mapping or the exception raised

vars == <<content, stack, outcome>>

Init ==
    /\ content \in [Files -> [Keys -> {Scalar} \cup Directives]]
    /\ \A f \in Files, k \in Keys \ IncludeKeys : content[f][k] = Scalar
    /\ stack = <<[file |-> Root, root |-> DirOf(Root), doc |-> <<>>, next |-> 1,
                  key |-> "none", path |-> <<>>]>>
    /\ outcome = Loading

\* The loader at the top of the stack and the key it constructs next.
Top == Last(stack)
NextKey == KeyOrder[Top.next]

\* An exception propagates through every nested load.
Raise(e) == stack' = <<>> /\ outcome' = e

\* construct_pairs on a scalar value.
ConstructScalar ==
    /\ stack # <<>> /\ Top.next <= Len(KeyOrder)
    /\ content[Top.file][NextKey] = Scalar
    /\ stack' = [stack EXCEPT ![Len(stack)] =
                   [Top EXCEPT !.doc = (NextKey :> Leaf(Top.file, NextKey)) @@ Top.doc,
                               !.next = Top.next + 1]]
    /\ UNCHANGED <<content, outcome>>

\* _include_constructor up to yaml.load (lines 91-96): open the joined path,
\* then start a nested load, one level deeper on the Python stack.
Include ==
    /\ stack # <<>> /\ Top.next <= Len(KeyOrder)
    /\ content[Top.file][NextKey] \in Directives
    /\ LET d == content[Top.file][NextKey]
           fn == Resolve(Top.root, d.ref)
       IN  IF fn \notin Files THEN Raise(Error("FileNotFoundError"))
           ELSE IF Len(stack) = MaxDepth THEN Raise(Error("RecursionError"))
           ELSE /\ stack' = Append(stack, NewLoader(fn, Top, NextKey, KeyPath(d.frag)))
                /\ UNCHANGED outcome
    /\ UNCHANGED content

\* A fault of the kind a change here could introduce: the caller stores
\* what the key path gives even when indexing failed, instead of letting
\* the TypeError propagate.
FinishStoringErrors ==
    /\ stack # <<>> /\ Top.next > Len(KeyOrder)
    /\ IF Len(stack) = 1
       THEN Raise(Top.doc)
       ELSE LET obj == Navigate(Top.doc, Top.path)
                caller == stack[Len(stack) - 1]
            IN  /\ stack' = Append(Front(Front(stack)),
                               [caller EXCEPT !.doc = (Top.key :> obj) @@ @,
                                              !.next = @ + 1])
                /\ UNCHANGED outcome
    /\ UNCHANGED content

\* A nested load has constructed its mapping (lines 102-104): the caller
\* follows the key path into it (lines 97-99) and stores the result at its
\* key, or the outermost load returns it.
Finish ==
    /\ stack # <<>> /\ Top.next > Len(KeyOrder)
    /\ IF Len(stack) = 1
       THEN Raise(Top.doc)
       ELSE LET obj == Navigate(Top.doc, Top.path)
                caller == stack[Len(stack) - 1]
            IN  IF obj \in Errors THEN Raise(obj)
                ELSE /\ stack' = Append(Front(Front(stack)),
                                   [caller EXCEPT !.doc = (Top.key :> obj) @@ @,
                                                  !.next = @ + 1])
                     /\ UNCHANGED outcome
    /\ UNCHANGED content

Next == ConstructScalar \/ Include \/ Finish

Spec == Init /\ [][Next]_vars
-----------------------------------------------------------------------------
(***************************************************************************)
(* Reference definition of what a load returns, read from the include    *)
(* semantics of spec 9 rather than the code's call stack: a directive in *)
(* file f stands for the file it names relative to f's own directory,    *)
(* loaded in full and then indexed by the key path; the first failing    *)
(* key in file order decides the exception.  RefLoad[n][f] loads f with  *)
(* n further nested loads allowed.                                        *)
(***************************************************************************)
RefLoad[n \in 0..(MaxDepth - 1)] ==
    [f \in Files |->
        LET Value(k) ==
                IF content[f][k] = Scalar THEN Leaf(f, k)
                ELSE LET d == content[f][k]
                         g == Resolve(DirOf(f), d.ref)
                     IN  IF g \notin Files THEN Error("FileNotFoundError")
                         ELSE IF n = 0 THEN Error("RecursionError")
                         ELSE Navigate(RefLoad[n - 1][g], KeyPath(d.frag))
            vals == [k \in Keys |-> Value(k)]
            failed == SelectSeq(KeyOrder, LAMBDA k : vals[k] \in Errors)
        IN  IF failed = <<>> THEN vals ELSE vals[Head(failed)]]

\* Whatever the files hold, a finished load returns what the include
\* semantics give, or raises the exception they give: each nested loader
\* resolves its directives against its own file's directory, and every
\* key path indexes the included file's mapping.
LoadMatchesReference ==
    outcome # Loading => outcome = RefLoad[MaxDepth - 1][Root]

\* Every nested load reads the file that its caller's directive, at the key
\* the caller is constructing, names relative to the directory of the
\* caller's own file, and follows that directive's key path (lines 92-96),
\* however deep the includes nest.
IncludesFollowCallers ==
    \A i \in 2..Len(stack) :
        LET caller == stack[i - 1]
            d == content[caller.file][KeyOrder[caller.next]]
        IN  /\ caller.next \in 1..Len(KeyOrder)
            /\ d \in Directives
            /\ stack[i].key = KeyOrder[caller.next]
            /\ stack[i].file = Resolve(DirOf(caller.file), d.ref)
            /\ stack[i].path = KeyPath(d.frag)

\* A configuration loader must not load a file inside its own load (spec 9
\* asks for explicit cycle detection): no file is on the stack twice.
NoFileLoadedWithinItself ==
    \A i, j \in 1..Len(stack) : i < j => stack[i].file # stack[j].file

\* File f holds a directive that names g, relative to f's own directory.
IncludesFile(f, g) ==
    \E k \in Keys : /\ content[f][k] \in Directives
                    /\ Resolve(DirOf(f), content[f][k].ref) = g

\* The include graph of the files is acyclic: some ranking of the files
\* decreases along every include.
IncludesAcyclic ==
    \E rank \in [Files -> 0..(Cardinality(Files) - 1)] :
        \A f, g \in Files : IncludesFile(f, g) => rank[g] < rank[f]

\* The loader keeps no record of the files being loaded (lines 91-96), so
\* an acyclic include graph is what keeps a file from being loaded inside
\* its own load: with one, no file is ever on the stack twice.
AcyclicIncludesLoadedOnce ==
    IncludesAcyclic => NoFileLoadedWithinItself
=============================================================================

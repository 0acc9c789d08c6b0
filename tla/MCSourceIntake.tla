--------------------------- MODULE MCSourceIntake ---------------------------
(* Instances of SourceIntake for TLC. *)
EXTENDS SourceIntake

Of(type, path) == [path |-> path, type |-> type]
Names == { Of("file", <<"a">>), Of("directory", <<"a">>), Of("file", <<"A">>),
           Of("file", <<"a", "b">>), Of("directory", <<"A", "b">>), Of("file", <<"b", "a">>),
           Of("link", <<"a", "b">>) }
OneFile == << Of("file", <<"a">>) >>

\* Streams whose blocks a scanner could get wrong: a header where data is due and the other
\* way round, data that does not come, units after the last block.
Streams ==
    { [blocks |-> b, loose |-> l, entries |-> OneFile] :
        b \in { <<"empty">>, <<"file", "unsafe", "empty">>, <<"zero", "file", "file">>,
                <<"empty", "unsafe", "zero">>, <<"empty", "file">> },
        l \in {0, 1} }

\* Every listing of at most two entries and some of three.
Listings ==
    { [blocks |-> <<"empty">>, loose |-> 0, entries |-> e] :
        e \in { <<>> } \cup { <<x>> : x \in Names } \cup (Names \X Names)
              \cup ({ Of("directory", <<"a">>) } \X Names \X { Of("file", <<"a", "b">>), Of("file", <<"A">>) }) }

Sources == Streams \cup Listings
=============================================================================

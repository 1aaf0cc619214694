---------------------------- MODULE MCSchemaSync ----------------------------
(* Small instances of SchemaSync for TLC.                                    *)
EXTENDS SchemaSync

(* "x > 0" is written the way PostgreSQL prints it, "x>0" is not.           *)
Spelling ==
  [text \in {"", "int", "text", "0", "1", "nextval", "x > 0", "x > 1", "x < id", "x <> id"} |-> text]
  @@ ("x>0" :> "x > 0") @@ ("x<id" :> "x < id")
Mentions ==
  [text \in {"x > 0", "x > 1", "x>0"} |-> {"x"}] @@ [text \in {"x < id", "x <> id", "x<id"} |-> {"x", "id"}]
Alphabet == <<"1", "2", "3", "a", "b", "check", "id", "n1", "owner", "x", "z">>

Column(name, type, notNull) ==
  [name |-> name, type |-> type, notNull |-> notNull, unique |-> FALSE, uname |-> NoName, default |-> NoText,
   identity |-> FALSE, check |-> NoText, ref |-> NoRef, rname |-> NoName]
Id        == [Column("id", "int", TRUE) EXCEPT !.identity = TRUE]
X         == Column("x", "int", FALSE)
Owner(actions) == [Column("owner", "int", FALSE) EXCEPT !.ref = <<"a", "id", actions>>]
Table(name, cols, pk, idx, checks) == [name |-> name, cols |-> cols, pk |-> pk, idx |-> idx, checks |-> checks]
Index(unique) == [name |-> <<"ix">>, cols |-> <<"x">>, unique |-> unique]
Check(name, expr) == [name |-> name, expr |-> expr]

Versions ==
  {<<Table("a", <<Id, [X EXCEPT !.unique = TRUE, !.check = "x > 0"]>>, <<"id">>, <<Index(FALSE)>>, <<>>),
     Table("b", <<Id, Owner("cascade")>>, <<"id">>, <<>>, <<>>)>>,
   <<Table("a", <<Id, [X EXCEPT !.unique = TRUE, !.uname = <<"uq">>, !.check = "x > 1", !.type = "text"]>>,
           <<"id">>, <<Index(TRUE)>>, <<Check(<<"n1">>, "x < id")>>),
     Table("b", <<Id, [Owner("restrict") EXCEPT !.rname = <<"owns">>]>>, <<"id">>, <<>>, <<>>)>>,
   <<Table("a", <<Id, [X EXCEPT !.notNull = TRUE, !.default = "0"]>>, <<"id">>, <<>>,
           <<Check(NoName, "x <> id"), Check(<<"n1">>, "x <> id")>>),
     Table("b", <<Id, [Owner("cascade") EXCEPT !.rname = <<"owns">>]>>, <<"id">>, <<>>, <<>>)>>,
   <<Table("a", <<Id>>, <<"id">>, <<>>, <<>>)>>,
   <<Table("b", <<[X EXCEPT !.notNull = TRUE]>>, <<"x">>, <<Index(FALSE)>>, <<>>)>>,
   <<Table("a", <<Id, [X EXCEPT !.default = "0"]>>, <<"id">>, <<>>, <<Check(NoName, "x > 1")>>)>>,
   <<Table("a", <<Id, [X EXCEPT !.check = "x>0", !.default = "nextval"]>>, <<"id">>, <<>>,
           <<Check(<<"n1">>, "x<id")>>),
     Table("z", <<Id, X>>, <<"id">>, <<>>, <<Check(<<"n1">>, "x <> id"), Check(NoName, "x <> id")>>)>>,
   <<Table("z", <<Id, X>>, <<"id">>, <<>>, <<Check(NoName, "x <> id"), Check(<<"n1">>, "x <> id")>>)>>}
=============================================================================

----------------------------- MODULE SchemaFacts -----------------------------
(***************************************************************************)
(* The vocabulary of the schema migrations under src/alembic/versions.     *)
(*                                                                         *)
(* A database schema is a set of facts, each a tuple of strings that       *)
(* begins with the table it is about.  A table is named by the name it     *)
(* has in the end; the name it carries at the moment is a fact of its own, *)
(* because several migrations rename one.  Of the columns only those are   *)
(* kept that some migration reads or changes (the keys, the references and *)
(* every column that is retyped, renamed, added or dropped later);         *)
(* sequences and the rows themselves are left out.                         *)
(*                                                                         *)
(* A migration is a record:                                                *)
(*   up, down   the change its transactional statements make,              *)
(*   online     the statements of upgrade() inside autocommit_block(),     *)
(*   offline    those of downgrade() inside autocommit_block().            *)
(***************************************************************************)
EXTENDS Sequences

\* The kinds of fact, each a set so that they can be joined.
Table(t)        == {<<t, "table", t>>}
Named(t, name)  == {<<t, "table", name>>}
Column(t, cs, type) == {<<t, "column", c, type>> : c \in cs}
Key(t, cs)      == {<<t, "key", c>> : c \in cs}       \* unique and complete
Unique(t, cs)   == {<<t, "unique", c>> : c \in cs}    \* partial or on an expression
Index(t, cs)    == {<<t, "index", c>> : c \in cs}
Check(t, cs)    == {<<t, "check", c>> : c \in cs}
Unvalidated(t, cs) == {<<t, "unvalidated", c>> : c \in cs}   \* a check still NOT VALID
NotNull(t, cs)  == {<<t, "not null", c>> : c \in cs}
Default(t, cs)  == {<<t, "default", c>> : c \in cs}
Trigger(t, n)   == {<<t, "trigger", n>>}
Routine(n)      == {<<"database", "function", n>>}
Extension(n)    == {<<"database", "extension", n>>}
StaleName(t)    == {<<t, "name", "id_uuid">>}         \* <table>_id_uuid_not_null
References(t, c, ref, col, rule) == {<<t, "fk", c, ref, col, rule>>}
Each(Fact(_), ts) == UNION {Fact(t) : t \in ts}
Stamped(t) == Trigger(t, "set_updated_at")            \* keeps updated_at current

(***************************************************************************)
(* Changes.  "add" must be absent before and "del" present, else the       *)
(* statement fails; "ensure" is created unless it is there (IF NOT         *)
(* EXISTS), "loose" dropped if it is there (IF EXISTS, or an index that    *)
(* goes with its column).                                                  *)
(***************************************************************************)
Nothing == [add |-> {}, del |-> {}, ensure |-> {}, loose |-> {}]
Add(F)  == [Nothing EXCEPT !.add = F]
Del(F)  == [Nothing EXCEPT !.del = F]
Swap(old, new) == [Nothing EXCEPT !.del = old, !.add = new]
Ensure(F) == [Nothing EXCEPT !.ensure = F]
Loose(F)  == [Nothing EXCEPT !.loose = F]

All(changes) == [add    |-> UNION {c.add : c \in changes},
                 del    |-> UNION {c.del : c \in changes},
                 ensure |-> UNION {c.ensure : c \in changes},
                 loose  |-> UNION {c.loose : c \in changes}]
c \oplus d == All({c, d})

\* What the statements of change c need, and what they leave.  A dropped table
\* takes everything on it along, whatever that is.
Dropped(c) == {f[1] : f \in {g \in c.del : g[2] = "table"}} \ {f[1] : f \in {g \in c.add : g[2] = "table"}}
Applicable(c, schema) ==
  LET gone == Dropped(c)
  IN  /\ c.add \cap schema = {}
      /\ {f \in c.del : f[1] \notin gone \/ f[2] = "table"} \subseteq schema
Apply(c, schema) ==
  LET gone == Dropped(c)
      left == IF gone = {} THEN schema ELSE {f \in schema : f[1] \notin gone}
  IN  (left \ (c.del \cup c.loose)) \cup c.add \cup c.ensure

\* What downgrade() undoes; what upgrade() dropped loosely it does not bring back.
Reverted(c) == [add |-> c.del, del |-> c.add, ensure |-> {}, loose |-> c.ensure]

Retype(t, cs, old, new) == Swap(Column(t, cs, old), Column(t, cs, new))

(***************************************************************************)
(* Statements of an autocommit block.  CREATE INDEX CONCURRENTLY IF NOT    *)
(* EXISTS leaves an invalid index when it dies half-way, and later skips   *)
(* whatever has the name.  VALIDATE CONSTRAINT ends a check's NOT VALID.   *)
(***************************************************************************)
CreateIndex(t, c) == [op |-> "create", fact |-> <<t, "index", c>>, half |-> <<t, "invalid", c>>]
DropIndex(t, c)   == [op |-> "drop",   fact |-> <<t, "index", c>>, half |-> <<t, "invalid", c>>]
Validate(t, c)    == [op |-> "validate", fact |-> <<t, "check", c>>, half |-> <<t, "unvalidated", c>>]

\* The facts a finished block has established, and those it went through.
Established(online) == {online[i].fact : i \in DOMAIN online}
Halves(online)      == {online[i].half : i \in DOMAIN online}

Migration(up) == [up |-> up, online |-> <<>>, down |-> Reverted(up), offline |-> <<>>]
NoSchemaChange == Migration(Nothing)
=============================================================================

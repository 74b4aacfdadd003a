----------------------------- MODULE MCFormQueries -----------------------------
(* Two targets, one with allowlists and one that allows all that is not       *)
(* sensitive; two forms, of which one may vanish; a field that may be renamed *)
(* to a sensitive name.                                                       *)
EXTENDS FormQueries

CONSTANTS c1, c2, c3, dev, prod

MCFold == [x \in Names \cup Forms |-> IF x = "NOTES" THEN "notes" ELSE x]
MCIdName == [i \in Ids |-> "1"]
MCMarks == [n \in Names |-> IF n = "token" THEN {"token"} ELSE {}]

AllowedOnly ==
  [enabled |-> TRUE, credentials |-> TRUE, allow_form_reads |-> TRUE,
   allow_all_forms |-> FALSE, forms |-> {"task"}, allow_all_fields |-> FALSE,
   fields_by_form |-> [f \in {"task"} |-> {"notes"}],
   sensitive_fields |-> {}, markers |-> {"token"}, max_rows |-> 1,
   allow_sql |-> TRUE, allow_all_objects |-> FALSE,
   objects |-> {<<"public", "work">>}]
AllButSensitive ==
  [AllowedOnly EXCEPT !.allow_all_forms = TRUE, !.forms = {},
     !.allow_all_fields = TRUE, !.fields_by_form = <<>>,
     !.allow_sql = FALSE, !.objects = {}]
MCPolicy == [t \in Targets |-> IF t = dev THEN AllButSensitive ELSE AllowedOnly]

MCObjects == {<<"public", "work">>, <<"private", "work">>}

Server(task, note, tables) ==
  [forms |-> [f \in Forms |-> IF f = "task" THEN task ELSE note],
   tables |-> tables]
Field(n) == [i \in Ids |-> n]
MCWorlds == [t \in Targets |->
  IF t = dev
  THEN {Server(Field(n), Field("notes"), {}) : n \in {"notes", "token"}}
  ELSE {Server(Field("NOTES"), Gone, MCObjects), Server(Gone, Gone, {})}]

MCServer == Server(Field("notes"), Field("notes"), {})

MCWorld == [t \in Targets |->
  IF t = dev THEN MCServer ELSE Server(Gone, Gone, {})]

MCSettings == {[metadata |-> 2, health |-> 1], [metadata |-> 0, health |-> 0]}

Ask(tool, t) ==
  [tool |-> tool, target |-> t, form |-> "task", id |-> 1,
   fields |-> <<"notes">>, sort |-> <<>>, where |-> <<>>, limit |-> 1,
   force |-> FALSE, object |-> <<"public", "work">>]

q == FieldQuote
v == ValueQuote
Texts == {<<>>, <<q, "1", q>>, <<v, Backslash, v, v, q, "token", q>>, <<q, "token", q>>, <<v, q, v, q, "token", q, v, q, v>>,
          <<v, q, "token", q, v>>, <<v, v, v, q, "token", q>>,
          <<q, q, q, "token", q>>, <<q, "notes", q, v, q, v>>,
          <<v, v, v, v, q, "token", q>>, <<v, v, q, "token", q>>}

Fields == {Ask("list_form_fields", dev), Ask("inspect_field", dev),
           [Ask("list_form_fields", dev) EXCEPT !.form = "note"],
           Ask("list_form_fields", prod)}
Forms_ == {Ask("list_forms", prod), Ask("list_forms", dev)}
Health == {Ask("health_check", dev),
           [Ask("health_check", dev) EXCEPT !.force = TRUE],
           Ask("health_check", prod)}
Rows == {[Ask("query_form", dev) EXCEPT !.where = text] : text \in Texts}
          \cup {Ask("query_form", prod), Ask("get_entry", prod),
                [Ask("get_entry", prod) EXCEPT !.form = "note"],
                [Ask("query_form", dev) EXCEPT !.sort = <<"token">>]}
Tables == {Ask("list_objects", prod), Ask("list_columns", prod),
           Ask("describe_object", prod), Ask("list_objects", dev),
           [Ask("describe_object", prod) EXCEPT !.object = <<"private", "work">>]}

\* Anything is asked by the first call, the two that share caches with it ask
\* for fewer.
Busy == {Ask("inspect_field", dev), Ask("health_check", dev)}
MCQueries == [r \in Calls |->
  CASE r = c1 -> Fields \cup Forms_ \cup Health \cup Rows \cup Tables
    [] r = c2 -> Busy \cup {Ask("list_form_fields", dev), Ask("list_forms", dev),
                            [Ask("health_check", dev) EXCEPT !.force = TRUE]}
    [] r = c3 -> Busy]

\* The caches and locks of fields, of forms and of health checks share nothing
\* but the event loop: one kind at a time is in use, rows and tables alone.
KindOf(c) ==
  CASE c.query \in Fields -> "fields"
    [] c.query \in Forms_ -> "forms"
    [] c.query \in Health -> "health"
    [] OTHER -> "rows"
Active == {r \in Calls : call[r].phase # "idle"}
InUse == {KindOf(call[r]) : r \in Active} \cup {k[1] : k \in DOMAIN cache}
OneKindAtATime ==
  /\ Cardinality(InUse) <= 1
  /\ "rows" \in InUse => Active = {c1}
  /\ InUse \cap {"forms", "health"} # {} => world = MCWorld

\* Calls leave before another one ends.  The third call works beside others of
\* its target, with the caches on, while the server stays as it is.
Few ==
  /\ Cardinality({r \in Calls : call[r].phase = "done"}) <= 1
  /\ c3 \in Active => /\ ttl.metadata > 0 /\ world = MCWorld
                      /\ \A r \in Active : call[r].query.target = dev
=============================================================================

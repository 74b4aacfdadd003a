------------------------------ MODULE FormQueries ------------------------------
(***************************************************************************)
(* What a gateway tells about AR servers it cannot keep still: the fields, *)
(* entries and forms FormQueryService and FormCatalogService read, the     *)
(* database objects DatabaseMetadataService lists and the health checks of *)
(* HealthCheckService.  The tools run as tasks of one event loop: between  *)
(* two awaits a task runs alone, at every await another may run, the       *)
(* client may cancel the call, and an administrator may rename a field,    *)
(* replace a form or drop a table.  Three caches, each behind asyncio      *)
(* locks that serve their waiters in order, spare AR most of the calls.    *)
(*                                                                         *)
(* Time is relative: a cached entry has an age, counted up to the age at   *)
(* which it expires, and what AR answered a lag, the time since AR looked. *)
(***************************************************************************)
EXTENDS Qualification, FiniteSets

CONSTANTS
  Calls,       \* calls that may be at work at once
  Targets,     \* the environments of helix.yaml
  Policy,      \* the policy of each target
  Queries,     \* what each call may ask
  Forms, Ids,  \* of forms and fields; field names are Names
  IdName,      \* the ID of a field in the place of its name
  Objects,     \* database objects, pairs of a folded schema and name
  Fold,        \* casefold
  Marks,       \* the sensitive_field_markers a folded name contains
  Worlds,      \* what the AR server of each target may contain
  Gone,        \* in the place of a form AR does not know
  Settings,    \* the cache lifetimes that may be configured
  Timeout,     \* request_timeout_seconds
  MaxEntries   \* _MAX_METADATA_CACHE_ENTRIES

FormTool == {"list_form_fields", "inspect_field", "query_form", "get_entry",
             "list_forms"}
SqlTool == {"list_objects", "list_columns", "describe_object"}
Metadata == {"list_form_fields", "inspect_field"}
Cached == Metadata \cup {"list_forms", "health_check"}

Folded(names) == {Fold[n] : n \in names}
Elements(s) == {s[i] : i \in DOMAIN s}
Unique(s) == Cardinality(Folded(Elements(s))) = Len(s)

\* Names the policy withholds, whatever else it allows.
IsSensitive(p, n) ==
  \/ Fold[n] \in Folded(p.sensitive_fields)
  \/ Marks[Fold[n]] \cap p.markers # {}

AllowedFields(p, f) ==
  IF f \in DOMAIN p.fields_by_form THEN p.fields_by_form[f] ELSE {}

\* The validators a policy has passed when the gateway starts.
ValidSqlScope(p) ==
  /\ p.allow_sql => (p.allow_all_objects \/ p.objects # {})
  /\ p.allow_all_objects => p.allow_sql /\ p.objects = {}
ValidReadScope(p) ==
  /\ p.allow_all_forms => p.forms = {}
  /\ p.allow_all_fields => DOMAIN p.fields_by_form = {}
  /\ p.allow_all_forms \/ DOMAIN p.fields_by_form \subseteq p.forms
  /\ \A f \in DOMAIN p.fields_by_form :
       /\ p.fields_by_form[f] # {}
       /\ Cardinality(Folded(p.fields_by_form[f])) =
            Cardinality(p.fields_by_form[f])
       /\ \A n \in p.fields_by_form[f] : ~ IsSensitive(p, n)

ASSUME FormQueriesAssumption ==
  /\ Fold \in [Names \cup Forms -> Names \cup Forms]
  /\ \A x \in Names \cup Forms : Fold[Fold[x]] = Fold[x]
  /\ \A t \in Targets : ValidSqlScope(Policy[t]) /\ ValidReadScope(Policy[t])
  /\ Settings \subseteq [metadata : Nat, health : Nat]
  /\ Timeout \in Nat \ {0} /\ MaxEntries \in Nat \ {0}
  /\ \A r \in Calls : \A q \in Queries[r] :
       /\ q.target \in Targets /\ q.form \in Forms /\ q.force \in BOOLEAN
       /\ q.fields \in Seq(Names) /\ q.sort \in Seq(Names)
       /\ q.where \in Seq(STRING)
       /\ q.tool = "get_entry" => q.sort = <<>> /\ q.where = <<>>

VARIABLES
  ttl,      \* the configured lifetimes, which never change
  world,    \* what each AR server contains
  call,     \* where each call is
  queue,    \* the tasks that hold, at the head, or want each asyncio lock
  cache     \* the cached answers

vars == <<ttl, world, call, queue, cache>>

(***************************************************************************)
(* What the policy of the target permits                                   *)
(***************************************************************************)

FormAccess(p, f) == p.allow_form_reads /\ (p.allow_all_forms \/ f \in p.forms)

FieldAccess(p, f, names) ==
  /\ FormAccess(p, f)
  /\ \A n \in names : ~ IsSensitive(p, n)
  /\ p.allow_all_fields \/ Folded(names) \subseteq Folded(AllowedFields(p, f))

QueryPolicy(p, q) ==
  LET refs == ReferencedFields(q.where)
      named == {n \in Names : <<n>> \in refs}
  IN  /\ FieldAccess(p, q.form, Elements(q.fields))
      /\ FieldAccess(p, q.form, Elements(q.sort))
      /\ refs # SyntaxError
      /\ FieldAccess(p, q.form, named)
      /\ p.allow_all_fields \/ refs = {<<n>> : n \in named}
      /\ q.limit <= p.max_rows

\* An allowlist names an object with its schema or without.
Permitted(p, o) == p.allow_all_objects \/ o \in p.objects \/ <<o[2]>> \in p.objects

\* FormQuery, FormEntryQuery and the others.
ValidInput(q) ==
  /\ q.tool \in {"query_form", "get_entry"} => q.fields # <<>> /\ Unique(q.fields)
  /\ Unique(q.sort)
  /\ q.limit > 0

Resolved(p) == p.enabled /\ p.credentials

\* What a tool checks before it counts against the rate limit.
Acceptable(q) ==
  LET p == Policy[q.target] IN
  /\ ValidInput(q)
  /\ Resolved(p)
  /\ CASE q.tool = "list_form_fields" ->
            FormAccess(p, q.form) /\ q.limit <= p.max_rows
       [] q.tool = "inspect_field" ->
            FormAccess(p, q.form) /\ q.limit <= p.max_rows
       [] q.tool = "query_form" -> QueryPolicy(p, q)
       [] q.tool = "get_entry" -> FieldAccess(p, q.form, Elements(q.fields))
       [] q.tool = "list_forms" ->
            p.allow_form_reads /\ q.limit <= p.max_rows
       [] q.tool = "list_objects" -> p.allow_sql /\ q.limit <= p.max_rows
       [] q.tool = "list_columns" ->
            p.allow_sql /\ q.limit <= p.max_rows /\ Permitted(p, q.object)
       [] q.tool = "describe_object" -> p.allow_sql /\ Permitted(p, q.object)
       [] OTHER -> TRUE

\* Fields of a form that may be shown, and forms that may be named.
VisibleFields(p, f, known) ==
  [i \in {i \in DOMAIN known :
            /\ ~ IsSensitive(p, known[i])
            /\ \/ p.allow_all_fields
               \/ Fold[known[i]] \in Folded(AllowedFields(p, f))} |-> known[i]]
VisibleForms(p, names) ==
  {f \in names : p.allow_all_forms \/ Fold[f] \in Folded(p.forms)}

(***************************************************************************)
(* Calls and caches                                                        *)
(***************************************************************************)

Nothing == [data |-> Gone, lag |-> 0, for |-> {}]
Idle == [phase |-> "idle", query |-> [tool |-> "none", force |-> FALSE],
         asking |-> "none", content |-> Nothing, seen |-> <<>>,
         outcome |-> "none", told |-> {}]

Key(q) ==
  CASE q.tool \in Metadata -> <<"fields", q.target, q.form>>
    [] q.tool = "list_forms" -> <<"forms", q.target>>
    [] OTHER -> <<"health", q.target>>
Keys == {<<"fields", t, f>> : t \in Targets, f \in Forms}
          \cup {<<"forms", t>> : t \in Targets} \cup {<<"health", t>> : t \in Targets}
\* One lock for all fields and one for all forms, but one for each health check.
LockOf(k) == IF k[1] = "health" THEN k ELSE <<k[1]>>
Locks == {LockOf(k) : k \in Keys}
\* Without a lifetime metadata is loaded by everyone for himself.
Lifetime(k) == IF k[1] = "health" THEN ttl.health ELSE ttl.metadata
Unlocked(k) == k[1] # "health" /\ Lifetime(k) = 0

\* What AR is asked for when the cache cannot help.
Load(q) == CASE q.tool \in Metadata -> "fields"
             [] q.tool = "list_forms" -> "forms"
             [] OTHER -> "probe"

Init ==
  /\ ttl \in Settings
  /\ world \in [Targets -> UNION {Worlds[t] : t \in Targets}]
  /\ \A t \in Targets : world[t] \in Worlds[t]
  /\ call = [r \in Calls |-> Idle]
  /\ queue = [l \in Locks |-> <<>>]
  /\ cache = <<>>

Goto(r, c) == call' = [call EXCEPT ![r] = c]
\* The queues when r has given up the lock l, or its place in front of it.
Leaving(r, l) ==
  LET places == {i \in DOMAIN queue[l] : queue[l][i] = r}
      place == CHOOSE i \in places : TRUE
  IN  [queue EXCEPT ![l] =
         IF places = {} THEN @
         ELSE SubSeq(@, 1, place - 1) \o SubSeq(@, place + 1, Len(@))]
Without(k) == [x \in DOMAIN cache \ {k} |-> cache[x]]

\* Mutant: an entry is used at the moment it expires.
ValidLate(k) == k \in DOMAIN cache /\ cache[k].age <= Lifetime(k)

Valid(k) == k \in DOMAIN cache /\ cache[k].age < Lifetime(k)

\* An expired entry is dropped by whoever meets it, unless it does not look.
Looked(k, q) == IF ~ q.force /\ k \in DOMAIN cache /\ ~ Valid(k) THEN Without(k)
                ELSE cache
Hit(k, q) == ~ q.force /\ Valid(k)
Found(k) == [data |-> cache[k].data, lag |-> cache[k].lag + cache[k].age,
             for |-> cache[k].for]

\* The audit records the outcome; the client gets an error code or the answer.
Finished(c, outcome, told) ==
  [c EXCEPT !.phase = "done", !.asking = "none", !.seen = <<>>,
            !.outcome = outcome, !.told = told,
            !.content = IF outcome = "success" THEN @ ELSE Nothing]
Asking(c, what) ==
  [c EXCEPT !.phase = "asked", !.asking = what, !.content = Nothing]

Told(kind, names) == {<<kind, n>> : n \in names}

\* inspect_field goes on to ask for the labels or the menu of a visible field.
Inspect(c) ==
  LET visible == c.content.data IN
  IF c.query.id \notin DOMAIN visible THEN Finished(c, "error", {})
  ELSE Asking([c EXCEPT !.seen = <<c.query.id, visible[c.query.id]>>], "labels")

\* With what the cache or AR had.
Using(c) ==
  CASE c.query.tool = "inspect_field" -> Inspect(c)
    [] c.query.tool = "list_form_fields" ->
         Finished(c, "success", Told("field", Elements(c.content.data)))
    [] c.query.tool = "list_forms" ->
         Finished(c, "success",
                  Told("form", VisibleForms(Policy[c.query.target],
                                            c.content.data)))
    [] OTHER -> Finished(c, "success", {})

(***************************************************************************)
(* A call, from the tool to its answer                                     *)
(***************************************************************************)

\* Refused at once, or next to be counted.
Begun(q) ==
  LET c == [Idle EXCEPT !.query = q]
  IN  IF Acceptable(q) THEN [c EXCEPT !.phase = "counting"]
      ELSE Finished(c, "error", {})

CallForms(r, q) ==
  /\ call[r].phase = "idle"
  /\ q.tool \in FormTool
  /\ Goto(r, Begun(q))
  /\ UNCHANGED <<ttl, world, queue, cache>>

CallSql(r, q) ==
  /\ call[r].phase = "idle"
  /\ q.tool \in SqlTool
  /\ Goto(r, Begun(q))
  /\ UNCHANGED <<ttl, world, queue, cache>>

\* The cache, then the lock, which is had at once if nobody holds it or waits.
LookUp(r, c) ==
  LET q == c.query
      k == Key(q)
      l == LockOf(k)
  IN  /\ cache' = Looked(k, q)
      /\ IF Hit(k, q) THEN Goto(r, Using([c EXCEPT !.content = Found(k)]))
         ELSE IF Unlocked(k) \/ queue[l] = <<>> THEN Goto(r, Asking(c, Load(q)))
         ELSE Goto(r, [c EXCEPT !.phase = "waiting"])
      /\ queue' = IF Hit(k, q) \/ Unlocked(k) THEN queue
                  ELSE [queue EXCEPT ![l] = Append(@, r)]

\* Health checks count against no limit.
CallHealth(r, q) ==
  /\ call[r].phase = "idle"
  /\ q.tool = "health_check"
  /\ IF Resolved(Policy[q.target]) THEN LookUp(r, [Idle EXCEPT !.query = q])
     ELSE /\ Goto(r, Finished([Idle EXCEPT !.query = q], "error", {}))
          /\ UNCHANGED <<queue, cache>>
  /\ UNCHANGED <<ttl, world>>

\* The limit is reached, or its database is not to be had.
Limited(r) ==
  /\ call[r].phase = "counting"
  /\ Goto(r, Finished(call[r], "error", {}))
  /\ UNCHANGED <<ttl, world, queue, cache>>

\* Counted: entries and database objects are asked for, the rest looked up.
Admitted(r) ==
  /\ call[r].phase = "counting"
  /\ LET c == call[r] IN
     IF c.query.tool \in Cached THEN LookUp(r, c)
     ELSE /\ Goto(r, Asking(c, CASE c.query.tool \in FormTool -> "entries"
                                 [] c.query.tool = "list_objects" -> "objects"
                                 [] OTHER -> "object"))
          /\ UNCHANGED <<queue, cache>>
  /\ UNCHANGED <<ttl, world>>

\* Mutant: the cache is not looked at again once the lock is had.
WakeBlindly(r) ==
  LET k == Key(call[r].query) IN
  /\ call[r].phase = "waiting"
  /\ Head(queue[LockOf(k)]) = r
  /\ Goto(r, Asking(call[r], Load(call[r].query)))
  /\ UNCHANGED <<ttl, world, queue, cache>>

\* The lock is had: somebody may have loaded in the meantime.
Wake(r) ==
  LET c == call[r]
      k == Key(c.query)
  IN  /\ c.phase = "waiting"
      /\ Head(queue[LockOf(k)]) = r
      /\ cache' = Looked(k, c.query)
      /\ IF Hit(k, c.query)
         THEN /\ Goto(r, Using([c EXCEPT !.content = Found(k)]))
              /\ queue' = Leaving(r, LockOf(k))
         ELSE /\ Goto(r, Asking(c, Load(c.query)))
              /\ UNCHANGED queue
      /\ UNCHANGED <<ttl, world>>

(***************************************************************************)
(* The AR server and the bridge in between                                 *)
(***************************************************************************)

\* A check probes the bridge and the gateway at once; both have to answer.
Probed == {IF bridge /\ kaazing THEN "healthy" ELSE "unhealthy" :
             bridge \in BOOLEAN, kaazing \in BOOLEAN}

Exists(t) == {f \in Forms : world[t].forms[f] # Gone}

\* selectFields and parseSort: each name stands for one field, or the request is
\* refused.
Selected(fields, names) ==
  LET called(n) == {i \in Ids : Fold[fields[i]] = Fold[n]}
  IN  IF \A n \in names : \E i \in Ids : called(n) = {i}
      THEN {{fields[i] : i \in UNION {called(n) : n \in names}}} ELSE {}

\* Fields AR consults for a qualification, by name or by ID.
Parsed(fields, where) ==
  {fields[i] : i \in {i \in Ids :
     \/ Fold[fields[i]] \in Folded(Consulted(where))
     \/ IdName[i] \in Consulted(where)}}

\* What AR sees at this moment.  Rows are read by the IDs of the fields, and the
\* menu of a field without it: what they are called by then is not seen.
Seen(c) ==
  LET q == c.query
      w == world[q.target]
  IN  CASE c.asking = "fields" -> {w.forms[q.form]}
        [] c.asking \in {"forms", "hint"} -> {Exists(q.target)}
        [] c.asking = "labels" /\ w.forms[q.form] # Gone ->
             {<<q.id, w.forms[q.form][q.id]>>}
        [] c.asking = "entries" /\ w.forms[q.form] # Gone ->
             {Told("field", s) :
                s \in Selected(w.forms[q.form], Elements(q.fields) \cup Elements(q.sort))}
        [] c.asking = "where" /\ w.forms[q.form] # Gone ->
             {c.content.data \cup Told("consulted", Parsed(w.forms[q.form], q.where))}
        [] c.asking = "rows" /\ w.forms[q.form] # Gone -> {c.content.data}
        [] c.asking = "menu" -> {c.content.data}
        [] c.asking = "objects" ->
             {{o \in w.tables : Permitted(Policy[q.target], o)}}
        [] c.asking \in {"object", "columns"} -> {w.tables \cap {q.object}}
        [] c.asking = "probe" -> Probed
        [] OTHER -> {Gone}

\* Forced checks at work, for which what AR says now is news.
Newsworthy == {r \in Calls : call[r].phase \notin {"idle", "done"}
                            /\ call[r].query.force}

\* What the bridge asks AR for next in the same request: names first become IDs,
\* and a qualification is parsed, before rows are read, a field is read before
\* its menu.
Further(c) ==
  CASE c.asking = "entries" -> IF c.query.tool = "query_form" THEN "where" ELSE "rows"
    [] c.asking = "where" -> "rows"
    [] c.asking = "labels" -> "menu"
    [] OTHER -> "nothing"

GoOn(r) ==
  LET c == call[r] IN
  /\ c.phase = "asked"
  /\ Further(c) # "nothing"
  /\ \E d \in Seen(c) \ {Gone} :
       Goto(r, [c EXCEPT !.asking = Further(c), !.content.data = d])
  /\ UNCHANGED <<ttl, world, queue, cache>>

\* It has what it was asked for, or AR does not know the form.
Look(r) ==
  LET c == call[r] IN
  /\ c.phase = "asked"
  /\ \E d \in Seen(c) :
       /\ c.asking \in {"entries", "where"} => d = Gone
       /\ Goto(r, [c EXCEPT
            !.phase = "answered",
            !.content = [data |-> d, lag |-> 0, for |-> Newsworthy]])
  /\ UNCHANGED <<ttl, world, queue, cache>>

\* The caches of fields and of forms drop what expires first when they are full.
Room(k) ==
  LET mine == {x \in DOMAIN cache : x[1] = k[1]}
      first == {x \in mine : \A y \in mine : cache[y].age <= cache[x].age}
  IN  IF k[1] = "health" \/ Cardinality(mine) < MaxEntries THEN {cache}
      ELSE {Without(x) : x \in first}

Store(k, content) ==
  IF Lifetime(k) = 0 THEN UNCHANGED cache
  ELSE \E room \in Room(k) :
         cache' = [x \in DOMAIN room \cup {k} |->
                     IF x = k THEN [data |-> content.data, lag |-> content.lag,
                                    for |-> content.for, age |-> 0]
                     ELSE room[x]]

\* Only what the policy shows of a form is kept.
Kept(c) ==
  IF c.asking = "fields"
  THEN [c.content EXCEPT
          !.data = VisibleFields(Policy[c.query.target], c.query.form, @)]
  ELSE c.content

\* Loaded, kept and used; the lock is released before labels are asked for.
Loaded(r) ==
  LET c == call[r]
      k == Key(c.query)
      kept == [c EXCEPT !.content = Kept(c)]
  IN  /\ c.phase = "answered"
      /\ c.asking \in {"fields", "forms", "probe"}
      /\ c.content.data # Gone
      /\ Store(k, kept.content)
      /\ queue' = Leaving(r, LockOf(k))
      /\ Goto(r, Using(kept))
      /\ UNCHANGED <<ttl, world>>

\* A form AR does not know: its forms are asked for, to suggest some.
NotFound(r) ==
  /\ call[r].phase = "answered"
  /\ call[r].asking \in {"fields", "entries", "where", "rows"}
  /\ call[r].content.data = Gone
  /\ Goto(r, Asking(call[r], "hint"))
  /\ UNCHANGED <<ttl, world, queue, cache>>

Suggest(r) ==
  /\ call[r].phase = "answered"
  /\ call[r].asking = "hint"
  /\ Goto(r, Finished(call[r], "error",
       Told("form", VisibleForms(Policy[call[r].query.target],
                                 call[r].content.data))))
  /\ queue' = Leaving(r, LockOf(Key(call[r].query)))
  /\ UNCHANGED <<ttl, world, cache>>

\* Mutant: the field is recognised by its ID.
SameFieldId(found, visible) == found[1] = visible[1]

SameField(found, visible) == found = visible

\* Labels, and a menu, are of a field that may have changed since it was found
\* visible.
Label(r) ==
  LET c == call[r] IN
  /\ c.phase = "answered"
  /\ c.asking \in {"labels", "menu"}
  /\ Goto(r, IF c.content.data # Gone /\ SameField(c.content.data, c.seen)
             THEN Finished(c, "success", Told("field", {c.content.data[2]}))
             ELSE Finished(c, "error", {}))
  /\ UNCHANGED <<ttl, world, queue, cache>>

\* Entries, with the fields that were asked for.
Entries(r) ==
  LET c == call[r] IN
  /\ c.phase = "answered"
  /\ c.asking = "rows" /\ c.content.data # Gone
  /\ Goto(r, Finished(c, "success", c.content.data))
  /\ UNCHANGED <<ttl, world, queue, cache>>

Listed(r) ==
  LET c == call[r] IN
  /\ c.phase = "answered"
  /\ c.asking \in {"objects", "columns"}
  /\ Goto(r, Finished(c, "success", Told("object", c.content.data)))
  /\ UNCHANGED <<ttl, world, queue, cache>>

\* An object that is there is asked for its columns.
Resolve(r) ==
  LET c == call[r] IN
  /\ c.phase = "answered"
  /\ c.asking = "object"
  /\ Goto(r, IF c.content.data = {} THEN Finished(c, "error", {})
             ELSE Asking(c, "columns"))
  /\ UNCHANGED <<ttl, world, queue, cache>>

\* Mutant: the lock of a load that failed is kept.
FailHolding(r) ==
  /\ call[r].phase \in {"asked", "answered"}
  /\ call[r].asking # "probe"
  /\ Goto(r, Finished(call[r], "error", {}))
  /\ UNCHANGED <<ttl, world, queue, cache>>

\* AR or the bridge refuses, or nothing comes in time; a health check takes
\* that for its answer.
Fail(r) ==
  /\ call[r].phase \in {"asked", "answered"}
  /\ call[r].asking # "probe"
  /\ Goto(r, Finished(call[r], "error", {}))
  /\ queue' = Leaving(r, LockOf(Key(call[r].query)))
  /\ UNCHANGED <<ttl, world, cache>>

\* The client takes its call back, wherever it waits.
Cancel(r) ==
  /\ call[r].phase \notin {"idle", "done"}
  /\ Goto(r, Finished(call[r], "cancelled", {}))
  /\ queue' = Leaving(r, LockOf(Key(call[r].query)))
  /\ UNCHANGED <<ttl, world, cache>>

\* The task is over: nothing remembers it.
Leave(r) ==
  /\ call[r].phase = "done"
  /\ call' = [x \in Calls |->
       IF x = r THEN Idle ELSE [call[x] EXCEPT !.content.for = @ \ {r}]]
  /\ cache' = [k \in DOMAIN cache |-> [cache[k] EXCEPT !.for = @ \ {r}]]
  /\ UNCHANGED <<ttl, world, queue>>

\* Fields are renamed, forms and tables come and go.
Administrate(t) ==
  /\ \E w \in Worlds[t] : w # world[t] /\ world' = [world EXCEPT ![t] = w]
  /\ UNCHANGED <<ttl, call, queue, cache>>

\* An answer is on its way for as long as the client waits for it.
Tick ==
  /\ \A r \in Calls : call[r].phase = "answered" => call[r].content.lag < Timeout
  /\ call' = [r \in Calls |-> IF call[r].phase = "answered"
                              THEN [call[r] EXCEPT !.content.lag = @ + 1]
                              ELSE call[r]]
  /\ cache' = [k \in DOMAIN cache |->
       IF Valid(k) THEN [cache[k] EXCEPT !.age = @ + 1] ELSE cache[k]]
  /\ cache' # cache \/ call' # call
  /\ UNCHANGED <<ttl, world, queue>>

Step(r) ==
  \/ Limited(r) \/ Admitted(r) \/ Wake(r) \/ GoOn(r) \/ Look(r)
  \/ Loaded(r) \/ NotFound(r) \/ Suggest(r) \/ Label(r) \/ Entries(r)
  \/ Listed(r) \/ Resolve(r) \/ Fail(r)

Next ==
  \/ \E r \in Calls : \E q \in Queries[r] :
       CallForms(r, q) \/ CallSql(r, q) \/ CallHealth(r, q)
  \/ \E r \in Calls : Step(r) \/ Cancel(r) \/ Leave(r)
  \/ \E t \in Targets : Administrate(t)
  \/ Tick

\* The event loop runs every task that is ready; AR answers, refuses, or is
\* given up by the client.
FairSpec == Init /\ [][Next]_vars /\ \A r \in Calls : WF_vars(Step(r))

(***************************************************************************)
(* Properties                                                              *)
(***************************************************************************)

\* The gateway reads the fields of such a text as AR does.
Plain(where) ==
  ~ Escaped(where) /\ \A i \in Ids : IdName[i] \notin Elements(where)

Answered(r) == call[r].phase = "done" /\ call[r].outcome = "success"

\* Whatever is cached, renamed, suggested or hidden in the quoting of a
\* qualification, an answer depends on and names only fields, forms and objects
\* the policy of its target permits.  A field has the name it had when the bridge
\* took that name for its ID: renamed before its rows, or its menu, are read it
\* is told under the old name.  Excepted are qualifications with a backslash or
\* the ID of a field, whose fields only AR knows.
TellsOnlyPermitted ==
  \A r \in Calls : call[r].phase = "done" =>
    LET q == call[r].query
        p == Policy[q.target]
    IN  \A x \in call[r].told :
          CASE x[1] = "field" -> FieldAccess(p, q.form, {x[2]})
            [] x[1] = "consulted" -> Plain(q.where) => FieldAccess(p, q.form, {x[2]})
            [] x[1] = "form" -> p.allow_form_reads /\ x[2] \in VisibleForms(p, {x[2]})
            [] x[1] = "object" -> p.allow_sql /\ Permitted(p, x[2])

\* How long ago AR saw what a tool may still answer from its cache.
Allowance(q) ==
  IF q.tool \in Cached \ {"inspect_field"} /\ Lifetime(Key(q)) > 0
  THEN Lifetime(Key(q)) - 1 ELSE 0

\* An answer is never older than the lifetime of its cache allows, however long
\* the call waited for the lock, and a forced check answers what was so while it
\* ran.
AnswerIsRecent ==
  \A r \in Calls : Answered(r) =>
    /\ call[r].content.lag <= Timeout + Allowance(call[r].query)
    /\ call[r].query.force => r \in call[r].content.for

Loading(r) ==
  /\ call[r].phase \in {"asked", "answered"}
  /\ \/ call[r].asking \in {"fields", "forms", "probe"}
     \/ call[r].asking = "hint" /\ call[r].query.tool \in Metadata

\* With a lifetime configured the load of one call serves all that wait: nobody
\* loads beside another, or what the cache holds, and the caches stay bounded.
LoadsAreShared ==
  /\ \A r \in Calls : Loading(r) /\ Lifetime(Key(call[r].query)) > 0 =>
       /\ Valid(Key(call[r].query)) => call[r].query.force
       /\ \A other \in Calls \ {r} : Loading(other) =>
            LockOf(Key(call[other].query)) # LockOf(Key(call[r].query))
  /\ \A kind \in {"fields", "forms"} :
       Cardinality({k \in DOMAIN cache : k[1] = kind}) <= MaxEntries

\* Every call ends, although one lock stands before all fields of all targets
\* and its holder may fail or be cancelled anywhere.
EveryCallEnds ==
  \A r \in Calls : call[r].phase # "idle" ~> call[r].phase = "done"
=============================================================================

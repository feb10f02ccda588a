----------------------------- MODULE MCServices -----------------------------
(* Services of the controller that share no state, in small instances for  *)
(* TLC: the middleware, exports, the diff engine, health checks and the    *)
(* notifier.  A behaviour is one of a single service, chosen at the start; *)
(* the others stay in their initial states, as if nobody called them,      *)
(* where the fair steps of the notifier are disabled.                      *)
EXTENDS Admission, Exports, DiffEmit, Health, Notifier

CONSTANT k1   \* the only API key

VARIABLE service

servicesVars == <<service, admissionVars, exportVars, diffVars, healthVars, notifierVars>>

Init ==
    /\ service \in {"middleware", "exports", "diff", "health", "notifier"}
    /\ AdmissionInit /\ ExportsInit /\ DiffInit /\ HealthInit /\ NotifierInit

Next ==
    /\ UNCHANGED service
    /\ \/ /\ service = "middleware" /\ AdmissionNext
          /\ UNCHANGED <<exportVars, diffVars, healthVars, notifierVars>>
       \/ /\ service = "exports" /\ ExportsNext
          /\ UNCHANGED <<admissionVars, diffVars, healthVars, notifierVars>>
       \/ /\ service = "diff" /\ DiffNext
          /\ UNCHANGED <<admissionVars, exportVars, healthVars, notifierVars>>
       \/ /\ service = "health" /\ HealthNext
          /\ UNCHANGED <<admissionVars, exportVars, diffVars, notifierVars>>
       \/ /\ service = "notifier" /\ NotifierNext
          /\ UNCHANGED <<admissionVars, exportVars, diffVars, healthVars>>

Spec == Init /\ [][Next]_servicesVars /\ NotifierFairness

----------------------------------------------------------------------------
\* Middleware: a key without a limit of its own, whose requests fall under
\* the limit of a role or under the default.
KeyLimits == <<>>
RoleLimits == "admin" :> 2

\* Exports: of three records, one of them longer, requests export two in two
\* chunks, two in three chunks that cut a record, one in one chunk, nothing,
\* and in a format there is not.
Sample(id, type, status) ==
    [id |-> id, experiment_type |-> type, status |-> status, target |-> "server"]

Records == <<Sample("exp-0", "latency", "completed"),
             Sample("exp-1", "latency", "failed"),
             Sample("exp-2", "cpu", "failed")>>

Sizes == (0 :> 2) @@ <<2, 2, 3>>

Filters(type, status) ==
    [experiment_type |-> type, status |-> status, target |-> ""]

Request(user, format, fs) == [user |-> user, format |-> format, filters |-> fs]

ExportRequests ==
    {Request("ann", "", Filters("latency", "")),
     Request("bob", "ndjson", Filters("", "failed")),
     Request("bob", "ndjson", Filters("", "completed")),
     Request("bob", "csv", Filters("memory", "")),
     Request("bob", "zip", Filters("", ""))}

\* Diffs: of every kind, some of them below the threshold, one of an ignored
\* field only.
List(s) == [kind |-> "array", of |-> s]
Object(f) == [kind |-> "object", of |-> f]

SubmittedStates ==
    {[tags |-> List(<<1>>), meta |-> Object(1 :> 1)],
     [tags |-> List(<<2, 1>>), meta |-> Object(1 :> 1)],
     [tags |-> List(<<>>), meta |-> Object(2 :> 1)],
     [tags |-> Object(<<>>), stamp |-> List(<<1>>)],
     [tags |-> Object(<<>>), stamp |-> List(<<2>>)]}

\* Health: agents at three endpoints, and the database.
AgentEndpoints == ("agents" :> <<"a", "b", "c">>) @@ ("database" :> <<>>)
Intervals      == ("agents" :> 5) @@ ("database" :> 6)
Timeouts       == ("agents" :> 3) @@ ("database" :> 3)
=============================================================================

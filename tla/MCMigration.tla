----------------------------- MODULE MCMigration -----------------------------
(***************************************************************************)
(* Migration of a config.json with a record of every kind (but webhooks,   *)
(* which come in as profiles do): an assignment to a group that is there   *)
(* and one to a group that is not, a VM that is both assigned and a        *)
(* template, and a token whose name the user may have given to one of his  *)
(* own.                                                                    *)
(***************************************************************************)
EXTENDS Migration

CONSTANTS go, dev, gone, self, vm1, vm2, id, own

Rec(t, i, v) == [table |-> t, id |-> i, value |-> v, clash |-> {}]

MCConfig ==
  << Rec("settings", self, go),
     Rec("vm_defaults", self, go),
     Rec("groups", dev, go),
     Rec("vm_assignments", vm1, dev),
     Rec("vm_assignments", vm2, gone),
     Rec("vm_assignments", vm1, Marked),
     Rec("profiles", id, go),
     Rec("schedules", id, go),
     [Rec("api_tokens", id, go) EXCEPT !.clash = {<<"api_tokens", own>>}] >>

MCOwn == {<<"settings", self>>, <<"api_tokens", own>>}
MCRefused == {{}, {1}, {8}}
MCLogs == {<<"event", "skipped", "event", "event", "blank">>, <<"event", "null", "event">>}
=============================================================================

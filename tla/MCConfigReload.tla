--------------------------- MODULE MCConfigReload ---------------------------
(***************************************************************************)
(* Two targets with three checks of three kinds, and the edits of the file *)
(* that matter: entries that go, are disabled, come back or change kind,   *)
(* values that move between check and profile, secrets, and values no task *)
(* could work with.                                                        *)
(***************************************************************************)
EXTENDS ConfigReload

Seconds(n) == Text(n, "s")
Percent(n) == Text(n, "%")

Icmp(timeout) == [id |-> "ping", kind |-> "icmp", interval |-> Seconds(30), timeout |-> timeout,
                  params |-> [count |-> 3]]
Http == [id |-> "web", kind |-> "http", interval |-> Seconds(30), timeout |-> Seconds(5),
         params |-> [url |-> [scheme |-> "https", host |-> "h"], headers |-> [accept |-> "a"],
                     body |-> FromFile("body")]]
Tcp == [id |-> "port", kind |-> "tcp", interval |-> Seconds(30), timeout |-> Seconds(5),
        params |-> [host |-> "h", port |-> 443]]

Check(id, profile) ==
    [id |-> id, profile |-> profile, enabled |-> TRUE, kind |-> None, interval |-> None,
     timeout |-> None, params |-> <<>>]

Target(id, checks) ==
    [id |-> id, address |-> "addr", labels |-> <<>>, enabled |-> TRUE, checks |-> checks]

Rule == [id |-> "loss", profile |-> "ping", notifier |-> "hook",
         metric |-> "measurement_loss_ratio", operator |-> "gte", clear_operator |-> None,
         threshold |-> Percent(10), clear_threshold |-> None, window |-> Text(5, "m"),
         duration |-> None, repeat_every |-> None, no_data_period |-> None,
         minimum_rounds |-> 1, minimum_latency_samples |-> None]

Hook == [id |-> "hook", secrets |-> [url |-> FromFile("hook")]]

Base ==
    [version |-> 1,
     profiles |-> <<Icmp(Seconds(5)), Http, Tcp>>,
     notifiers |-> <<Hook>>,
     rules |-> <<Rule>>,
     targets |-> <<Target("t1", <<Check("a", "ping"), Check("b", "web")>>),
                   Target("t2", <<Check("a", "port")>>)>>,
     scheduler |-> [tick_interval |-> Seconds(1), max_concurrent |-> 64,
                    default_jitter |-> Percent(10),
                    max_concurrent_by_probe |-> [kind \in Kinds |-> None]],
     storage |-> [retention |-> [raw_rounds |-> Text(7, "d"), rollup_1h |-> Forever],
                  warning_free |-> Percent(10), critical_free |-> Percent(5)],
     shutdown_timeout |-> Seconds(30)]

\* Edits that change what runs, and edits the file reader or the resolution refuses.
Contents == [
    base          |-> Base,
    one_target    |-> [Base EXCEPT !.targets = <<Base.targets[1]>>,
                                   !.notifiers = <<>>, !.rules = <<>>],
    target_off    |-> [Base EXCEPT !.targets[1].enabled = FALSE],
    check_off     |-> [Base EXCEPT !.targets[1].checks[1].enabled = FALSE],
    other_kind    |-> [Base EXCEPT !.targets[1].checks[1].profile = "port"],
    quicker       |-> [Base EXCEPT !.profiles[1].timeout = Seconds(4)],
    moved_value   |-> [Base EXCEPT !.targets[1].checks[1].timeout = Text(5000, "ms"),
                                   !.profiles[2].params.body = Literal("x"),
                                   !.targets[1].address = "other",
                                   !.targets[1].labels = [site |-> "x", rack |-> "y"]],
    other_header  |-> [Base EXCEPT !.targets[1].checks[2].params =
                                      [headers |-> [accept |-> "b", host |-> "x"]]],
    torn_text     |-> Unparsable,
    no_rounds     |-> [Base EXCEPT !.scheduler.max_concurrent = 0],
    wrong_kind    |-> [Base EXCEPT !.targets[1].checks[1].kind = "dns"]]

AllFiles == DOMAIN Contents

FirstSecrets == [body |-> "x", hook |-> "u"]
SecretStates == {FirstSecrets, [body |-> "y"]}
=============================================================================

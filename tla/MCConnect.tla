------------------------------ MODULE MCConnect ------------------------------
(* Instances of Connect for TLC. *)
EXTENDS Connect

CONSTANT tag

ConnectSubs == 0 .. MaxAttempts
ConnectKinds == {"SubscribeState", "RegisterBlockEpochNtfn"}
OneTag == {tag}

\* Options and an lnd that go together.
PlainOptions == [macaroon |-> {"dir"}, tls |-> {"path"}, network |-> "regtest",
                 version |-> None]
PlainLnd == [network |-> "regtest", version |-> MinimalCompatibleVersion]

PlainStarts ==
    [config : {c \in [unlocked : BOOLEAN, sync : BOOLEAN, notifier : BOOLEAN,
                      callerCtx : BOOLEAN, options : {PlainOptions}] :
                  \* those that wait for the notifier wait for nothing else
                  c.notifier => ~c.unlocked /\ ~c.sync},
     lnd : {PlainLnd}]

\* A start-up that waits for nothing.
Start(options, node) ==
    [config |-> [unlocked |-> FALSE, sync |-> FALSE, notifier |-> FALSE,
                 callerCtx |-> TRUE, options |-> options],
     lnd |-> node]

\* Any macaroon and TLS options, on a network that may not exist.
OptionStarts ==
    {Start([PlainOptions EXCEPT !.macaroon = m, !.tls = t, !.network = n],
           PlainLnd) :
        m \in SUBSET {"dir", "path", "hex"},
        t \in {{}, {"path", "data"}, {"insecure", "system"}, {"insecure", "data"}},
        n \in {"regtest", "unknown"}}

\* Any version required of any lnd.
VersionStarts ==
    {Start([PlainOptions EXCEPT !.version = required],
           [network |-> n, version |-> actual]) :
        n \in {"regtest", "simnet"},
        required \in VersionType \cup {None},
        actual \in VersionType}

AllStarts == PlainStarts \cup OptionStarts \cup VersionStarts

NoCallerCtx ==
    {s \in PlainStarts : s.config.notifier /\ ~s.config.callerCtx}
=============================================================================

---------------------------- MODULE MCProxyHealth ----------------------------
(* Small instances of ProxyHealth: two failures take a proxy from its best *)
(* score to none, and its circuit opens at the second (MySQL: the first).  *)
EXTENDS ProxyHealth

CONSTANTS p1, p2

Site(driver, proxies, buffer, faulty, admins, events) ==
    [driver |-> driver, proxies |-> proxies, buffer |-> buffer,
     faulty |-> faulty, admins |-> admins, events |-> events]

(* Faults, admin writes, and two proxies with a longer queue, each by      *)
(* itself.  The queue overflows in the first two and in the last.          *)
MCDeployments ==
    {Site("mysql", {p1}, 1, TRUE, FALSE, 2),
     Site("sqlite", {p1}, 1, TRUE, FALSE, 2),
     Site("mysql", {p1}, 2, FALSE, TRUE, 2),
     Site("sqlite", {p1}, 2, FALSE, TRUE, 2),
     Site("mysql", {p1, p2}, 3, FALSE, FALSE, 3),
     Site("memory", {p1, p2}, 2, FALSE, FALSE, 3)}

(* SQLite, and nothing goes wrong. *)
MCQuiet == {Site("sqlite", {p1}, 2, FALSE, FALSE, 2)}
=============================================================================

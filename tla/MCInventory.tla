---------------------------- MODULE MCInventory -----------------------------
(* Small inventories for TLC: two hostnames, two addresses, one or two     *)
(* MACs; the cfg files choose which commands run.                          *)
EXTENDS Inventory, TLC

Hosts == {"h1", "h2"}
Ips   == {"i1", "i2"}
MCValues == Hosts \cup Ips

Cell(h, i) == [f \in Fields |-> IF f = "hostname" THEN h
                                ELSE IF f = "primary_ip" THEN i ELSE NULL]
R(h, i, m) == [value |-> Cell(h, i), mac |-> m, ports |-> FALSE]

(* One host, seen with or without a name and a MAC; or two hosts at two    *)
(* addresses, possibly behind the same MAC.                                *)
OneHost  == {<<R(h, i, m)>> : h \in {NULL, "h1"}, i \in Ips, m \in Macs \cup {NULL}}
TwoHosts == {<<R("h1", "i1", m), R(NULL, "i2", m)>> : m \in Macs \cup {NULL}}
MCScanBatches == OneHost \cup TwoHosts
FewScanBatches == {<<R("h1", "i1", NULL)>>, << >>} \cup
                  {<<R("h1", "i1", m), R(NULL, "i2", m)>> : m \in Macs}

(* What all scans see: the same host, and one without a name.              *)
SameScanBatch == {<<R("h1", "i1", NULL), R(NULL, "i2", NULL)>>}

(* Devices have no MAC in NetBox; the second one repeats an address.       *)
MCNetboxBatches == {<<R("h1", "i2", NULL), R("h2", "i2", NULL)>>}
MCLansweeperBatches == {<<R("h1", "i1", m), R("h2", NULL, m)>> : m \in Macs}

MCAddRows == {R("h2", "i1", NULL)} \cup {R(NULL, "i1", m) : m \in Macs}
OneAddRow  == {R("h2", "i1", NULL)}
FewAddRows == {R("h2", "i1", m) : m \in Macs}

Interchangeable == Permutations(Scans) \cup Permutations(Reviewers)
=============================================================================

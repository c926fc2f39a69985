------------------------ MODULE MCSupplierManagement ------------------------
(* Two suppliers and contacts with two requests, in turn or at once; a document
   confirmed twice; a certificate and two sweeps; two scorecards. *)
EXTENDS SupplierManagement

CONSTANTS s1, s2, c1, c2, q1, q2, d1, u1, u2, w1, w2, k1

(* Nothing, a perfect, a middling and an awkward value of each measure; more received
   than ordered, more returned than received, more disputed than raised, a negative. *)
MCDeliveries == {<<0, 0>>, <<2, 3>>, <<3, 3>>}
MCQuantities == {<<0, 0, 0>>, <<0, 0, 3>>, <<1, 3, 3>>, <<0, 3, 3>>, <<0, 3, 1>>,
                 <<3, 1, 3>>, <<1, -3, 3>>}
MCInvoices == {<<0, 0>>, <<1, 2>>, <<2, 2>>, <<-1, 1>>}

(* Suppliers and countries are alike: the supplier that may be there is s1, of
   Germany. *)
MCInit ==
    /\ Init
    /\ supplier[s1].exists => supplier[s1].country = "DE"
    /\ ~supplier[s2].exists
    /\ contact[c2].exists => contact[c1].exists

(* Requests, ids of suppliers and ids of contacts are alike too: the first is
   taken first. *)
MCNext ==
    /\ Next
    /\ call[q2].stage = "idle" /\ call'[q2].stage # "idle" => call[q1].stage # "idle"
    /\ s2 \in Promised' => s1 \in Promised' \/ supplier[s1].exists \/ supplier[s2].exists
    /\ c2 \in Promised' => c1 \in Promised' \/ contact[c1] # NoRow \/ contact[c2] # NoRow

MCSpec == MCInit /\ [][MCNext]_vars /\ DocumentsFairness
=============================================================================

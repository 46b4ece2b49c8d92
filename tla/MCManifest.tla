----------------------------- MODULE MCManifest -----------------------------
(* Manifests of small models.  The place of an entry in the weights follows *)
(* from those before it.                                                    *)
EXTENDS TraceManifest

Product(k, m, n, form, partner, bias, role, wtype, chain) ==
    [role |-> role, wtype |-> wtype, k |-> k, m |-> m, nExp |-> n, row |-> k, n |-> k * m * n,
     form |-> form, op |-> 1, partner |-> partner, bias |-> bias, chain |-> chain, base |-> 0]
Table(role, k, m, wtype) == Product(k, m, 1, "NONE", None, None, role, wtype, [tag |-> "none"])
Norm(k) == Table("NORM", k, 1, 0)
Link(layer, link, norm, src) == [tag |-> "product", layer |-> layer, link |-> link, norm |-> norm, src |-> src]
LayerEntry(layer, proj, down, postAttn, postFfn, scale, moe) ==
    [Table("LAYER", 0, 0, 0) EXCEPT !.chain =
        [tag |-> "layer", layer |-> layer, proj |-> proj, down |-> down, postAttn |-> postAttn,
         postFfn |-> postFfn, scale |-> scale, moe |-> moe]]

Placed(entries) ==
    Eager([i \in DOMAIN entries |->
        [entries[i] EXCEPT !.base = Total([j \in 1 .. i - 1 |-> entries[j].n]) \div WChunk]])

Manifest(entries, nProducts, chain) ==
    Indexed([entries |-> Placed(entries), nProducts |-> nProducts, chain |-> chain,
     weights |-> Eager([i \in 1 .. Total([j \in DOMAIN entries |-> entries[j].n]) |-> (i * i + 3 * i + (i \div 5)) % P])])

Plain(k, m, chain) == Product(k, m, 1, "NONE", None, None, "PRODUCT", 1, chain)
=============================================================================

---------------------------- MODULE MCMdnsBrowse ----------------------------
(* The packets of a browse: one television, or two on the same host, are     *)
(* heard of, move, change and say goodbye, of one service type or of two.    *)
EXTENDS MdnsBrowse

CONSTANTS tv, cast, one, two, box, other, ip, before, after

Record(type, service, instance, hostname, addr, txt, ttl) ==
    [type |-> type, service |-> service, instance |-> instance, hostname |-> hostname,
     ip |-> addr, txt |-> txt, ttl |-> ttl]
Ptr(service, instance, ttl) == Record("PTR", service, instance, None, None, None, ttl)
Srv(instance, hostname, ttl) == Record("SRV", tv, instance, hostname, None, None, ttl)
Txt(instance, txt) == Record("TXT", tv, instance, None, None, txt, 2)
Addr(hostname, ttl) == Record("A", None, None, hostname, ip, None, ttl)

Whole(list) == [records |-> list, broken |-> FALSE]
Packets ==
    {Whole(r) : r \in {<<Ptr(tv, one, 2)>>, <<Ptr(tv, one, 0)>>, <<Srv(one, box, 2)>>,
                       <<Srv(one, other, 1)>>, <<Txt(one, before)>>, <<Txt(one, after)>>,
                       <<Addr(box, 2), Srv(two, box, 2)>>, <<Addr(box, 1)>>,
                       <<Ptr(cast, two, 2), Ptr(tv, two, 2)>>}}
      \cup {[records |-> <<Ptr(tv, one, 2)>>, broken |-> TRUE]}
=============================================================================

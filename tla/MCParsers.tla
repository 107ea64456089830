------------------------------ MODULE MCParsers ------------------------------
(***************************************************************************)
(* Small instances of the way of a packet through the parsers.             *)
(***************************************************************************)
EXTENDS Parsers

\* Values on both sides of every boundary of the packet path.
MCLengths    == {0, 13, 14, 17, 18, 33, 34, 41, 42, 45, 46, 53, 54, 60, 281, 282, 283}
MCWords      == {0, 4, 5, 6, 15}
MCTotals     == {0, 19, 20, 24, 27, 28, 29, 39, 40, 46, 268, 269}
MCUdpLengths == {0, 7, 8, 9, 19, 20, 26, 247, 248, 249}
MCPorts      == {53, 67, 68, 1900, 5353, 40000}

\* A zero, labels of one, two and four bytes, one that is longer than any message
\* here, and the mark of a pointer; the numbers up to four are targets, too.
MCBytes == {0, 1, 2, 4, 70, 192}

MCSizes       == {0, 11, 12, 13, 16, 27, 34, 40}
MCCounts      == {0, 1, 2, 65535}
MCDataLengths == {0, 3, 4, 6, 16, 300}
MCTextLengths == {0, 2, 255}

\* The codes the parser knows, padding and END; one and four are types and lengths.
MCCodes == {0, 1, 4, 12, 50, 53, 55, 255}

\* A host, a service and one of its instances, the answer to a query for all services,
\* a name without a dot and none.
MCNames == {<<>>, <<"local">>, <<"host", "local">>, <<"_ipp", "_tcp", "local">>,
            <<"dev", "_ipp", "_tcp", "local">>, <<"_services", "_dns-sd", "_udp", "local">>}
MCUnderscored == {"_ipp", "_tcp", "_udp", "_services", "_dns-sd"}
MCTexts == {[k \in {} |-> ""], [k \in {"md"} |-> "x"],
            [k \in {"fn", "model"} |-> IF k = "fn" THEN "x" ELSE "y"]}

MCFirstLines == {<<"NOTIFY", "CR", "LF">>, <<"HTTP/", "CR", "LF">>, <<"M-SEARCH", "LF">>,
                 <<"NOTIFY">>, <<"v", "LF">>}
MCPieces     == {"nt", "NT", ":", "v", "CR", "LF"}
=============================================================================

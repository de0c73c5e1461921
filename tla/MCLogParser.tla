---------------------------- MODULE MCLogParser -----------------------------
EXTENDS LogParser

MCEvents ==
    [which : {"position"}, mono : {2, 3}, valid : BOOLEAN, ecef : {1, 4},
     geodetic : {<<0, 0>>}]
    \union [which : {"clocks"}, mono : {2, 4}, wall : {0, 7, 9}]
    \union [which : {"sentinel"}, mono : {5}, type : {"startOfRoute", "endOfRoute"}]
    \union [which : {"initData"}, mono : {1}, version : {"v"}]
    \union [which : {"other", "broken"}, mono : {6}]
=============================================================================

\* Three secrets, any crash, failed save, torn file and failed reload.
SPECIFICATION Spec
CONSTANT MaxIds = 3
INVARIANTS TypeOK CounterCovers AnswersStand RevokedSilent GrantedServed
PROPERTY TableSpec

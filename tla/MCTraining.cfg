SPECIFICATION TrainSpec
CONSTANTS
    Trainers = {t1, t2}
    Runs = {r1, r2}
    Target = 4
    Every = 2
    Nobody = Nobody
SYMMETRY MCSymmetry
INVARIANTS
    DoneIsWhole
    SmoothSchedule
    TracedBack

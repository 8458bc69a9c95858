------------------------------ MODULE Rotations ------------------------------
(***************************************************************************)
(* The conversions of modules/math (rotations.hpp), computed exactly for   *)
(* the 24 rotations of the cube: their matrices are integer, their Euler   *)
(* angles are quarter turns, and a unit quaternion, which the conversions  *)
(* only use up to a positive factor, is the shortest integer vector <<w,   *)
(* x, y, z>> on its ray.  A rotation vector is an axis on its ray and an   *)
(* angle in degrees.  Rounding is left out.                                *)
(*                                                                         *)
(* The state is an orientation that is turned step by step, kept as a      *)
(* quaternion and as a matrix.                                             *)
(***************************************************************************)
EXTENDS Linear

VARIABLES
  quat,     (* the orientation as a quaternion                             *)
  R,        (* the orientation as a matrix                                 *)
  before,   (* the quaternion before the last turn, <<>> before the first *)
  rpy       (* the last turn: roll, pitch and yaw                          *)

rotationVars == <<quat, R, before, rpy>>

RotationTypeOK ==
  /\ quat \in [1..4 -> -1..1]
  /\ R \in [1..3 -> [1..3 -> -1..1]]
  /\ before \in {<<>>} \cup [1..4 -> -1..1]
  /\ rpy \in [1..3 -> 0..3]

w(q) == q[1]
vec(q) == <<q[2], q[3], q[4]>>
Quaternion(s, v) == Shortest(<<s, v[1], v[2], v[3]>>)

(* Cosine and sine of quarter turns, and of their halves up to a factor.   *)
cos(k) == <<1, 0, -1, 0>>[(k % 4) + 1]
sin(k) == <<0, 1, 0, -1>>[(k % 4) + 1]
cosHalf(k) == <<1, 1, 0, -1>>[k + 1]
sinHalf(k) == <<0, 1, 1, 1>>[k + 1]

-----------------------------------------------------------------------------
(* Quaternions                                                             *)

quatToRotMat(q) ==
  LET n == Dot(q, q)
      x == q[2]  y == q[3]  z == q[4]  s == w(q)
      Diag(u) == (-n + 2*s*s + 2*u*u) \div n
      Off(a) == (2*a) \div n
  IN  <<<<Diag(x), Off(x*y + s*z), Off(x*z - s*y)>>,
        <<Off(x*y - s*z), Diag(y), Off(y*z + s*x)>>,
        <<Off(x*z + s*y), Off(y*z - s*x), Diag(z)>>>>

(* Each branch is scaled by twice the root it takes.                       *)
rotMatToQuat(M) ==
  LET m(i, j) == M[i + 1][j + 1]
      tr == Trace(M)
  IN  Shortest(
        IF tr > 0
        THEN <<tr + 1, m(1,2) - m(2,1), m(2,0) - m(0,2), m(0,1) - m(1,0)>>
        ELSE IF m(1,1) > m(0,0) /\ m(1,1) > m(2,2)
        THEN <<m(2,0) - m(0,2), m(0,1) + m(1,0), m(1,1) - m(0,0) - m(2,2) + 1, m(1,2) + m(2,1)>>
        ELSE IF m(2,2) > m(0,0)
        THEN <<m(0,1) - m(1,0), m(2,0) + m(0,2), m(1,2) + m(2,1), m(2,2) - m(0,0) - m(1,1) + 1>>
        ELSE <<m(1,2) - m(2,1), m(0,0) - m(1,1) - m(2,2) + 1, m(0,1) + m(1,0), m(2,0) + m(0,2)>>)

quatInverse(q) == <<w(q), -q[2], -q[3], -q[4]>>

(* Fault: the factors of the cross product are swapped.                    *)
quatMultSwapped(q2, q1) ==
  Quaternion(w(q1) * w(q2) - Dot(vec(q1), vec(q2)),
             Add(Add(Times(w(q1), vec(q2)), Times(w(q2), vec(q1))), Cross(vec(q2), vec(q1))))

quatMult(q2, q1) ==
  Quaternion(w(q1) * w(q2) - Dot(vec(q1), vec(q2)),
             Add(Add(Times(w(q1), vec(q2)), Times(w(q2), vec(q1))), Cross(vec(q1), vec(q2))))

(* The multiplication matrices differ in the sign of the vector's cross    *)
(* product matrix.                                                         *)
quatR(q) ==
  LET x == q[2]  y == q[3]  z == q[4]  s == w(q)
  IN  <<<<s, -x, -y, -z>>, <<x, s, -z, y>>, <<y, z, s, -x>>, <<z, -y, x, s>>>>

quatL(q) ==
  LET x == q[2]  y == q[3]  z == q[4]  s == w(q)
  IN  <<<<s, -x, -y, -z>>, <<x, s, z, -y>>, <<y, -z, s, x>>, <<z, y, -x, s>>>>

(* Half of the angular velocity, in body coordinates.                      *)
quatToOmega(q, qd) ==
  LET x == q[2]  y == q[3]  z == q[4]  s == w(q)
  IN  Apply(<<<<-x, s, z, -y>>, <<-y, -z, s, x>>, <<-z, y, -x, s>>>>, qd)

-----------------------------------------------------------------------------
(* Roll, pitch and yaw (ZYX)                                               *)

rpyToRot(a) ==
  LET Rx == <<<<1, 0, 0>>, <<0, cos(a[1]), sin(a[1])>>, <<0, -sin(a[1]), cos(a[1])>>>>
      Ry == <<<<cos(a[2]), 0, -sin(a[2])>>, <<0, 1, 0>>, <<sin(a[2]), 0, cos(a[2])>>>>
      Rz == <<<<cos(a[3]), sin(a[3]), 0>>, <<-sin(a[3]), cos(a[3]), 0>>, <<0, 0, 1>>>>
  IN  Product(Product(Rx, Ry), Rz)

(* atan2 of what is 0, 1 or -1, with atan2(0, 0) = 0.                      *)
atan2(s, c) == IF s = 0 /\ c = 0 THEN 0
               ELSE CHOOSE k \in 0..3 : s = sin(k) /\ c = cos(k)
minusAsin(s) == (-s) % 4

rotTorpy(M) == <<atan2(M[2][3], M[3][3]), minusAsin(M[1][3]), atan2(M[1][2], M[1][1])>>

rpyToquat(a) ==
  LET cr == cosHalf(a[1])  sr == sinHalf(a[1])
      cp == cosHalf(a[2])  sp == sinHalf(a[2])
      cy == cosHalf(a[3])  sy == sinHalf(a[3])
  IN  Shortest(<<cr*cp*cy + sr*sp*sy, sr*cp*cy - cr*sp*sy,
                 cr*sp*cy + sr*cp*sy, cr*cp*sy - sr*sp*cy>>)

quatToRPY(q) == rotTorpy(quatToRotMat(q))

rpyToEarInv(a) ==
  <<<<cos(a[2])*cos(a[3]), -sin(a[3]), 0>>,
    <<cos(a[2])*sin(a[3]), cos(a[3]), 0>>,
    <<-sin(a[2]), 0, 1>>>>

rpyToEar(a) ==
  <<<<1, 0, -sin(a[2])>>,
    <<0, cos(a[1]), cos(a[2])*sin(a[1])>>,
    <<0, -sin(a[1]), cos(a[2])*cos(a[1])>>>>

rpyToEarInv_dot(a, d) ==
  <<<<-cos(a[3])*sin(a[2])*d[2] - cos(a[2])*sin(a[3])*d[3], -cos(a[3])*d[3], 0>>,
    <<cos(a[3])*cos(a[2])*d[3] - sin(a[3])*sin(a[2])*d[2], -sin(a[3])*d[3], 0>>,
    <<-cos(a[2])*d[2], 0, 0>>>>

-----------------------------------------------------------------------------
(* Rotation vectors                                                        *)

RotVec(axis, angle) == [axis |-> axis, angle |-> angle]
ZeroRotVec == RotVec(Zero, 0)

skew_sim(v) == <<<<0, -v[3], v[2]>>, <<v[3], 0, -v[1]>>, <<-v[2], v[1], 0>>>>

(* Twice the vector of a skew-symmetric matrix.                            *)
skew_simToVec(M) == <<M[3][2] - M[2][3], M[1][3] - M[3][1], M[2][1] - M[1][2]>>

(* For a rotation of the cube the cosine is 0 or -1/2 when the sine is not *)
(* 0; a sine of 0 gives the zero vector, half turns included.              *)
rotMatToRotVec(M) ==
  LET s == Neg(skew_simToVec(M))
  IN  IF s = Zero THEN ZeroRotVec
      ELSE RotVec(Shortest(s), IF Trace(M) = 1 THEN 90 ELSE 120)

(* Twice the arc tangent of the norm of the vector over w.                 *)
quatToRotVec(q) ==
  LET s2 == Dot(vec(q), vec(q))
      half == CASE w(q) = 0 -> 90
                [] s2 = w(q) * w(q) -> IF w(q) > 0 THEN 45 ELSE 135
                [] OTHER -> IF w(q) > 0 THEN 60 ELSE 120
  IN  IF s2 = 0 THEN ZeroRotVec ELSE RotVec(Shortest(vec(q)), 2 * half)

rotVecToQuat(v) ==
  CASE v.angle = 0 -> <<1, 0, 0, 0>>
    [] v.angle = 180 -> Quaternion(0, v.axis)
    [] v.angle \in {90, 120} -> Quaternion(1, v.axis)
    [] v.angle \in {240, 270} -> Quaternion(-1, v.axis)

(* Rodrigues' formula, with twice the cosine, and twice the sine over the  *)
(* length of the axis.                                                     *)
rotVecToRotMat(v) ==
  LET n == Dot(v.axis, v.axis)
      cos2 == CASE v.angle \in {90, 270} -> 0
                [] v.angle \in {120, 240} -> -1
                [] v.angle = 180 -> -2
      sin2 == CASE v.angle = 90 -> 2 [] v.angle = 270 -> -2
                [] v.angle = 120 -> 1 [] v.angle = 240 -> -1
                [] v.angle = 180 -> 0
      S == skew_sim(v.axis)
  IN  IF v.angle = 0 THEN Identity
      ELSE [i \in 1..3 |-> [j \in 1..3 |->
             (cos2 * Identity[i][j] + ((2 - cos2) * v.axis[i] * v.axis[j]) \div n
               - sin2 * S[i][j]) \div 2]]

(* A vector longer than a half turn becomes the shorter one, backwards.    *)
rangePi(v) ==
  IF v.angle <= 180 THEN v
  ELSE LET a2 == v.angle - 360 * ((v.angle + 180) \div 360)
       IN  RotVec(IF a2 < 0 THEN Neg(v.axis) ELSE v.axis, IF a2 < 0 THEN -a2 ELSE a2)

-----------------------------------------------------------------------------
(* Orientation errors, and the matrix that takes a vector to another       *)

computeOrientErrorQuat(q_des, q) ==
  LET sign_flip == IF Dot(q, q_des) < 0 THEN -1 ELSE 1
      s == sign_flip * w(q)
      v == Times(sign_flip, vec(q))
  IN  Quaternion(s * w(q_des) + Dot(v, vec(q_des)),
                 Add(Add(Times(s, vec(q_des)), Times(-w(q_des), vec(q))),
                     Neg(Cross(v, vec(q_des)))))

computeOrientErrorMat(Rdes, Ract) == rotMatToRotVec(Product(Rdes, Transposed(Ract)))

computeOrientErrorRpy(des_orient, actual_orient) ==
  rotMatToRotVec(Product(rpyToRot(des_orient), Transposed(rpyToRot(actual_orient))))

(* For vectors along the axes, whose basis is its own inverse transposed.  *)
twovecToRot(v1, v2) ==
  IF v1 = v2 \/ v1 = Neg(v2) THEN Identity
  ELSE LET base == Transposed(<<v1, v2, Cross(v1, v2)>>)
           coordChangeMat == <<<<0, 1, 0>>, <<1, 0, 0>>, <<0, 0, 1>>>>
       IN  Product(Product(base, coordChangeMat), Transposed(base))

-----------------------------------------------------------------------------
(* An orientation that is turned                                           *)

Turns == [1..3 -> 0..3]

RotationInit ==
  /\ quat = <<1, 0, 0, 0>>
  /\ R = Identity
  /\ before = <<>>
  /\ rpy = Zero

Turn(a) ==
  /\ before' = quat
  /\ rpy' = a
  /\ quat' = quatMult(rpyToquat(a), quat)
  /\ R' = Product(rpyToRot(a), R)

RotationSpec == RotationInit /\ [][\E a \in Turns : Turn(a)]_rotationVars

-----------------------------------------------------------------------------
(* The representations of one orientation agree after any sequence of      *)
(* turns, and what one function loses is only what its formula must lose.  *)

HalfTurn(M) == Trace(M) = -1
GimbalLock(a) == cos(a[2]) = 0
UpToSign(p, q) == p = q \/ p = Neg(q)
Axes == {<<1, 0, 0>>, <<0, 1, 0>>, <<0, 0, 1>>, <<-1, 0, 0>>, <<0, -1, 0>>, <<0, 0, -1>>}

QuaternionsAgree ==
  /\ R = quatToRotMat(quat)
  /\ UpToSign(rotMatToQuat(R), quat)
  /\ quatMult(quat, quatInverse(quat)) = <<1, 0, 0, 0>>
  /\ Shortest(Apply(quatR(before), rpyToquat(rpy))) = quat
  /\ Shortest(Apply(quatL(rpyToquat(rpy)), before)) = quat

AnglesAgree ==
  /\ quatToRotMat(rpyToquat(rpy)) = rpyToRot(rpy)
  /\ ~ GimbalLock(quatToRPY(quat)) => rpyToRot(quatToRPY(quat)) = R
  /\ rpyToEar(rpy) = Product(rpyToRot(rpy), rpyToEarInv(rpy))

(* A quarter turn forth and back gives twice the derivative of a sine.     *)
RatesAgree ==
  /\ \A d \in {<<0, 1, 0>>, <<0, 0, 1>>} :
       LET ahead == rpyToEarInv([i \in 1..3 |-> rpy[i] + d[i]])
           back == rpyToEarInv([i \in 1..3 |-> rpy[i] - d[i]])
       IN  \A i, j \in 1..3 : 2 * rpyToEarInv_dot(rpy, d)[i][j] = ahead[i][j] - back[i][j]
  /\ Shortest(quatToOmega(before, quat)) = Shortest(vec(quatMult(quat, quatInverse(before))))

VectorsAgree ==
  /\ rotVecToQuat(quatToRotVec(quat)) = quat \/ quat = <<-1, 0, 0, 0>>
  /\ rotVecToRotMat(quatToRotVec(quat)) = R
  /\ rotVecToRotMat(rangePi(quatToRotVec(quat))) = R
  /\ rangePi(quatToRotVec(quat)).angle <= 180
  /\ rotVecToRotMat(rotMatToRotVec(R)) = R \/ HalfTurn(R)

(* The error between the orientations before and after is the turn.        *)
ErrorsAgree ==
  /\ computeOrientErrorMat(R, quatToRotMat(before)) = rotMatToRotVec(rpyToRot(rpy))
  /\ computeOrientErrorRpy(rpy, Zero) = rotMatToRotVec(rpyToRot(rpy))
  /\ Dot(quat, before) >= 0 => UpToSign(computeOrientErrorQuat(quat, before), rpyToquat(rpy))
  /\ \A v1, v2 \in Axes : v1 # Neg(v2) => Apply(twovecToRot(v1, v2), v1) = v2

(* All of it, for an orientation reached by any sequence of turns, of at   *)
(* least one (rotations.hpp: quaternions, angles, rates, vectors, errors). *)
OrientationsAgree ==
  before # <<>> =>
    QuaternionsAgree /\ AnglesAgree /\ RatesAgree /\ VectorsAgree /\ ErrorsAgree
=============================================================================
